---- MODULE Spec2Model ----
(***************************************************************************)
(* Read path of the EVM chain-state provider (BaseEVMStateProvider):       *)
(* the process-wide connection map behind getWeb3, the fee estimator       *)
(* getFee, the balance reader getBalanceForAddress with its cache-aside    *)
(* refresh, and the wallet aggregator getWalletBalance.                    *)
(*                                                                         *)
(* One worker process runs single-threaded: every action below is one      *)
(* synchronous run of a handler between two suspension points (await).     *)
(***************************************************************************)
EXTENDS Integers, Sequences, FiniteSets, TLC

(***************************************************************************)
(* Bounds of the model.                                                    *)
(***************************************************************************)
MaxCalls == 3
MaxHandles == 3
MaxSamples == 8
MaxTarget == 5
MaxCacheCalls == 2
MaxTime == 1
MaxAddrs == 2
MaxInputs == 3
MaxRuns == 2
BatchSize == 2
MaxRecords == 2
MaxTxs == 3

Tasks == 1..MaxCalls
Handles == 1..MaxHandles
Networks == {"mainnet", "testnet"}

\* rpcs[chain][network] === undefined
NoHandle == 0

VARIABLES
  rpcs,         \* BaseEVMStateProvider.rpcs[this.chain]: network -> handle or NoHandle
  rpcsChain,    \* whether BaseEVMStateProvider.rpcs[this.chain] exists
  nextHandle,   \* identity of the next handle object `new CryptoRpc(..)` yields
  dead,         \* handles whose connection is broken: getBlockNumber() rejects on them
  constructOk,  \* network -> whether `new CryptoRpc(rpcConfig, {}).get(chain)` succeeds
  task,         \* the calls in progress, one record per call
  feeTxs,       \* gasPrice of the indexed transactions with blockHeight > 0, newest first
  feeOut,       \* the result of the getFee computation that has not been handed back yet
  cache,        \* CacheStorage: key -> [value, expiry]
  refresh,      \* the refresh computations of the cache, in the order they were started
  now,          \* the clock, in minutes
  issued,       \* how many requests went out: [probe, rpc, db, cache, addresses]
  wal,          \* the getWalletBalance call
  xf,           \* an Erc20RelatedFilterTransform: its objects, what was written and pushed
  txc,          \* a getTransaction / streamTransactions call and what it asked for
  uw,           \* an updateWallet call and the two collections it writes
  ws,           \* a streamWalletTransactions pipeline
  bc,           \* a broadcastTransaction call and what the node was sent
  cli           \* a run of the token-add command and the wallet it loaded

connVars == <<rpcs, rpcsChain, nextHandle, dead, constructOk>>
feeVars == <<feeTxs, feeOut>>
cacheVars == <<cache, refresh, now>>
vars == <<rpcs, rpcsChain, nextHandle, dead, constructOk, task, feeTxs, feeOut,
          cache, refresh, now, issued, wal, xf, txc, uw, ws, bc, cli>>
apiVars == <<xf, txc, uw, ws, bc, cli>>
coreVars == <<rpcs, rpcsChain, nextHandle, dead, constructOk, task, feeTxs, feeOut,
              cache, refresh, now, issued, wal>>

(***************************************************************************)
(* getWeb3 as a function of the connection map.  conn is the record        *)
(* [rpcs, chain, next]; every operator returns the map it leaves behind    *)
(* and what the call did.                                                  *)
(***************************************************************************)
Conn == [rpcs |-> rpcs, chain |-> rpcsChain, next |-> nextHandle]

\* rpcs[this.chain] && rpcs[this.chain][network]
HasEntry(c, net) == c.chain /\ c.rpcs[net] # NoHandle

\* variant: the new handle is made and returned, and not put into the map
StoreHandle_NotKept(c, net) == [c EXCEPT !.next = c.next + 1]

\* lines 66-71: the new handle is stored under rpcs[chain][network],
\* creating rpcs[chain] when it does not exist yet
StoreHandle(c, net) ==
  [c EXCEPT !.rpcs[net] = c.next, !.chain = TRUE, !.next = c.next + 1]

\* variant: a construction that throws is swallowed and nothing is returned
W3Finish_Swallow(c, net, ok) ==
  IF ~HasEntry(c, net)
  THEN IF ok
       THEN [conn |-> StoreHandle(c, net), st |-> "ok", h |-> c.next, attempts |-> 1]
       ELSE [conn |-> c, st |-> "ok", h |-> NoHandle, attempts |-> 1]
  ELSE [conn |-> c, st |-> "ok", h |-> c.rpcs[net], attempts |-> 0]

\* lines 61-73: what follows the try/catch.  ok: the construction succeeds.
\* A construction that throws leaves the function at once: nothing is stored.
W3Finish(c, net, ok) ==
  IF ~HasEntry(c, net)
  THEN IF ok
       THEN [conn |-> StoreHandle(c, net), st |-> "ok", h |-> c.next, attempts |-> 1]
       ELSE [conn |-> c, st |-> "throw", h |-> NoHandle, attempts |-> 1]
  ELSE [conn |-> c, st |-> "ok", h |-> c.rpcs[net], attempts |-> 0]

\* lines 54-57: with an entry the call suspends on the probe of that entry;
\* without one the try block awaits nothing and the call runs on to the end.
W3Begin(c, net, ok) ==
  IF HasEntry(c, net)
  THEN [conn |-> c, st |-> "probing", h |-> c.rpcs[net], attempts |-> 0]
  ELSE W3Finish(c, net, ok)

\* variant: the catch block does not evict the entry
W3Catch_Keep(c, net, probeOk) == c

\* lines 58-60: a rejected probe deletes rpcs[chain][network], whatever it holds now
W3Catch(c, net, probeOk) ==
  IF probeOk THEN c ELSE [c EXCEPT !.rpcs[net] = NoHandle]

\* the call resumed by the probe's result
W3Resume(c, net, probeOk, ok) == W3Finish(W3Catch(c, net, probeOk), net, ok)

(***************************************************************************)
(* getFee: the quartile estimator.  Amounts are in the base unit (wei);    *)
(* a median may be a half unit, so medians are carried doubled.            *)
(***************************************************************************)
\* `target` of a call that supplies none
Undefined == -1
\* 1e9: base units per gwei (lines 134, 136)
Gwei == 1000000000
\* toFixed(2): two decimals of a gwei
FixedDigits == 2
Hundredth == Gwei \div (10 ^ FixedDigits)
\* the doubled median of an empty quartile (NaN)
NaN2 == -1

GasPrices == {0, 1004000000, 1006000000}
Targets == {Undefined} \cup (0..MaxTarget)

Min(a, b) == IF a <= b THEN a ELSE b

\* line 109: let { network, target = 4 } = params
TargetParam(target) == IF target = Undefined THEN 4 ELSE target

\* line 128: .filter(gasPrice => gasPrice)
RECURSIVE FilterTruthy(_)
FilterTruthy(s) ==
  IF s = <<>> THEN <<>>
  ELSE IF Head(s) # 0 THEN <<Head(s)>> \o FilterTruthy(Tail(s))
       ELSE FilterTruthy(Tail(s))

\* variant: the comparator is (a, b) => a - b, an ascending sort
Before_Ascending(a, b) == a - b <= 0

\* the comparator of line 129, (a, b) => b - a: a stays before b when b - a <= 0
Before(a, b) == b - a <= 0

RECURSIVE InsertSorted(_, _)
InsertSorted(x, s) ==
  IF s = <<>> THEN <<x>>
  ELSE IF Before(Head(s), x) THEN <<Head(s)>> \o InsertSorted(x, Tail(s))
       ELSE <<x>> \o s

\* line 129: .sort((a, b) => b - a), a stable sort
RECURSIVE SortDesc(_)
SortDesc(s) ==
  IF s = <<>> THEN <<>>
  ELSE InsertSorted(s[Len(s)], SortDesc(SubSeq(s, 1, Len(s) - 1)))

\* lines 126-129
BlockGasPrices(txs) == SortDesc(FilterTruthy(txs))

\* variant: the fallback `|| 1` is lost
WhichQuartile_NoFallback(target) == Min(target, 4)

\* line 131: Math.min(target, 4) || 1
WhichQuartile(target) ==
  LET m == Min(target, 4) IN IF m = 0 THEN 1 ELSE m

\* StatsUtil.getNthQuartileMedian: the array is cut into four quartiles of
\* equal length and the median of the n-th is returned
Quartile(a, n) ==
  LET q == Len(a) \div 4 IN SubSeq(a, (n - 1) * q + 1, n * q)

Median2(q) ==
  LET n == Len(q) IN
  IF n = 0 THEN NaN2
  ELSE IF n % 2 = 1 THEN 2 * q[(n + 1) \div 2]
       ELSE q[n \div 2] + q[n \div 2 + 1]

GetNthQuartileMedian2(a, n) == Median2(Quartile(a, n))

\* variant: the quotient is cut after the second decimal instead of rounded
RoundedGwei_Floor(m2, up) ==
  IF m2 = NaN2 THEN 0 ELSE m2 \div (2 * Hundredth)

\* lines 134-135: Number((quartileMedian / 1e9).toFixed(2)) || 0, in hundredths
\* of a gwei.  toFixed takes the nearest hundredth; up: where a halfway
\* quotient goes, which depends on the double nearest to it.
RoundedGwei(m2, up) ==
  IF m2 = NaN2 THEN 0
  ELSE LET k == m2 \div (2 * Hundredth)
           r == m2 % (2 * Hundredth) IN
       IF r > Hundredth \/ (r = Hundredth /\ up) THEN k + 1 ELSE k

\* line 136: feerate = gwei * 1e9
FeeRate(m2, up) == RoundedGwei(m2, up) * Hundredth

\* lines 126-137: the producer of getFee on the transactions the query returned
FeeOf(txs, target, up) ==
  LET t == TargetParam(target)
      a == BlockGasPrices(txs)
      w == WhichQuartile(t)
      m2 == GetNthQuartileMedian2(a, w) IN
  [target |-> target, sorted |-> a, quartile |-> w, median2 |-> m2, up |-> up,
   feerate |-> FeeRate(m2, up), blocks |-> t]

NoFeeOut ==
  [target |-> Undefined, sorted |-> <<>>, quartile |-> 0, median2 |-> NaN2, up |-> FALSE,
   feerate |-> 0, blocks |-> 0]

\* the indexer stores one more confirmed transaction
IndexTx(g) ==
  /\ feeOut = NoFeeOut
  /\ Len(feeTxs) < MaxSamples
  /\ feeTxs' = <<g>> \o feeTxs
  /\ UNCHANGED <<connVars, task, feeOut, cacheVars, issued, wal, apiVars>>

\* lines 126-137 run without suspension on the array the query returned
GetFeeCompute(target, up) ==
  /\ feeOut = NoFeeOut
  /\ feeOut' = FeeOf(feeTxs, target, up)
  /\ UNCHANGED <<connVars, task, feeTxs, cacheVars, issued, wal, apiVars>>

\* the result is handed to the caller
FeeReturn ==
  /\ feeOut # NoFeeOut
  /\ feeOut' = NoFeeOut
  /\ UNCHANGED <<connVars, task, feeTxs, cacheVars, issued, wal, apiVars>>

(***************************************************************************)
(* Properties of getFee.                                                   *)
(***************************************************************************)
Computed == feeOut # NoFeeOut

Occurrences(s, v) == Cardinality({i \in 1..Len(s) : s[i] = v})

\* a is the gas prices of txs that are not zero, highest first
SortedSamples(a, txs) ==
  /\ \A i \in 1..Len(a) : \A j \in i..Len(a) : a[i] >= a[j]
  /\ \A v \in GasPrices : Occurrences(a, v) = IF v = 0 THEN 0 ELSE Occurrences(txs, v)

\* the positions of a that make up its n-th quarter
QuarterOf(a, n) ==
  {i \in 1..Len(a) : (n - 1) * (Len(a) \div 4) < i /\ i <= n * (Len(a) \div 4)}

\* m2 is twice a median of the values of a at the positions P: at least half of
\* them lie on either side of it, and it is the middle value or the mean of the
\* two middle values
IsMedian2(m2, a, P) ==
  IF P = {} THEN m2 = NaN2
  ELSE /\ 2 * Cardinality({i \in P : 2 * a[i] <= m2}) >= Cardinality(P)
       /\ 2 * Cardinality({i \in P : 2 * a[i] >= m2}) >= Cardinality(P)
       /\ \E i, j \in P : m2 = a[i] + a[j]

Abs(x) == IF x < 0 THEN -x ELSE x

\* C5 as stated: a target that is 0 or not supplied selects quartile 1, any
\* target >= 1 selects quartile min(target, 4), and the feerate comes from the
\* median of that quartile of the samples sorted in descending order.
C5_AsStated ==
  Computed =>
    /\ feeOut.quartile = IF feeOut.target = Undefined \/ feeOut.target = 0
                         THEN 1 ELSE Min(feeOut.target, 4)
    /\ SortedSamples(feeOut.sorted, feeTxs)
    /\ IsMedian2(feeOut.median2, feeOut.sorted, QuarterOf(feeOut.sorted, feeOut.quartile))

\* C5, amended: target 0 selects quartile 1, a target that is not supplied
\* defaults to 4 and selects quartile 4 (and is reported as blocks: 4), any
\* target >= 1 selects quartile min(target, 4); the feerate comes from the median
\* of that quartile of the non-zero samples sorted in descending order, from
\* which it differs by no more than a hundredth of a gwei.
C5_QuartileSelection ==
  Computed =>
    /\ feeOut.quartile = IF feeOut.target = 0 THEN 1
                         ELSE IF feeOut.target = Undefined THEN 4
                         ELSE Min(feeOut.target, 4)
    /\ feeOut.blocks = (IF feeOut.target = Undefined THEN 4 ELSE feeOut.target)
    /\ SortedSamples(feeOut.sorted, feeTxs)
    /\ IsMedian2(feeOut.median2, feeOut.sorted, QuarterOf(feeOut.sorted, feeOut.quartile))
    /\ feeOut.median2 # NaN2 => Abs(2 * feeOut.feerate - feeOut.median2) < 2 * Hundredth

\* a call without target has read the lowest-priced quartile of eight samples
C5_Witness ==
  /\ Computed
  /\ feeOut.target = Undefined
  /\ feeOut.quartile = 4
  /\ Len(feeOut.sorted) = 8
  /\ feeOut.median2 = 2 * 1004000000
  /\ feeOut.sorted[1] = 1006000000

\* C6: on the same samples the feerate for target 1 is at least the feerate
\* for target 4.
C6_Monotone ==
  Computed =>
    /\ feeOut.target = 1 => feeOut.feerate >= FeeOf(feeTxs, 4, feeOut.up).feerate
    /\ feeOut.target = 4 => feeOut.feerate <= FeeOf(feeTxs, 1, feeOut.up).feerate

\* target 1 has yielded a strictly higher feerate than target 4 would
C6_Witness ==
  /\ Computed
  /\ feeOut.target = 1
  /\ feeOut.feerate > FeeOf(feeTxs, 4, feeOut.up).feerate
  /\ FeeOf(feeTxs, 4, feeOut.up).feerate > 0

\* C7 as stated: the feerate is the quartile median rounded down to a multiple
\* of 10^7: a multiple of 10^7 that never exceeds the median and lies less than
\* 10^7 below it, and 0 when no sample has a non-zero gas price.
C7_AsStated ==
  Computed =>
    /\ feeOut.feerate % Hundredth = 0
    /\ feeOut.median2 # NaN2 =>
         /\ 2 * feeOut.feerate <= feeOut.median2
         /\ feeOut.median2 - 2 * feeOut.feerate < 2 * Hundredth
    /\ (\A i \in 1..Len(feeTxs) : feeTxs[i] = 0) => feeOut.feerate = 0

\* C7, amended: the feerate is the quartile median rounded to the NEAREST
\* multiple of 0.01 gwei (10^7 base units): it is a multiple of 10^7 that lies
\* within half of 10^7 of the median, possibly above it, and it is 0 when no
\* sample has a non-zero gas price.
C7_RoundedToNearest ==
  Computed =>
    /\ feeOut.feerate % Hundredth = 0
    /\ feeOut.feerate >= 0
    /\ feeOut.median2 # NaN2 => Abs(2 * feeOut.feerate - feeOut.median2) <= Hundredth
    /\ (\A i \in 1..Len(feeTxs) : feeTxs[i] = 0) => feeOut.feerate = 0

\* a median of 1.006 gwei has been rounded up to 1.01 gwei
C7_Witness ==
  /\ Computed
  /\ feeOut.median2 = 2 * 1006000000
  /\ feeOut.feerate = 1010000000

(***************************************************************************)
(* CacheStorage.getGlobalOrRefresh(key, producer, ttl): a live entry is    *)
(* returned at once; otherwise the caller joins the refresh in flight for  *)
(* the key, or starts one by invoking the producer.                        *)
(***************************************************************************)
\* CacheStorage.Times.Minute, in ticks of the clock
Minute == 1

NoResult == [none |-> TRUE]

Live(c, key, time) == key \in DOMAIN c /\ time < c[key].expiry

\* variant: a refresh that failed stays the refresh in flight of its key
Pending_KeepFailed(rf, key) ==
  {i \in 1..Len(rf) : rf[i].key = key /\ rf[i].st # "ok"}

Pending(rf, key) ==
  {i \in 1..Len(rf) : rf[i].key = key /\ rf[i].st = "pending"}

\* what a caller of getGlobalOrRefresh finds: kind "hit" with the value, "join"
\* with the refresh it waits for, or "refresh" with the refresh it starts
Enter(c, rf, key, time) ==
  IF Live(c, key, time)
  THEN [kind |-> "hit", value |-> c[key].value, rid |-> 0, refresh |-> rf]
  ELSE IF Pending(rf, key) # {}
  THEN [kind |-> "join", value |-> NoResult,
        rid |-> CHOOSE i \in Pending(rf, key) : TRUE, refresh |-> rf]
  ELSE [kind |-> "refresh", value |-> NoResult, rid |-> Len(rf) + 1,
        refresh |-> Append(rf, [key |-> key, st |-> "pending", value |-> NoResult])]

\* the producer returned value: it is stored with expiry now + ttl
Resolve(c, rf, rid, value, time, ttl) ==
  [cache |-> (rf[rid].key :> [value |-> value, expiry |-> time + ttl]) @@ c,
   refresh |-> [rf EXCEPT ![rid].st = "ok", ![rid].value = value]]

\* the producer failed: nothing is stored
Reject(c, rf, rid) ==
  [cache |-> c, refresh |-> [rf EXCEPT ![rid].st = "failed"]]

(***************************************************************************)
(* Calls.                                                                  *)
(***************************************************************************)
NoToken == ""
Addresses == {"0xAB", "0xab", "0xcd"}
Tokens == {NoToken, "0xTK"}

\* A balance in wei is far beyond 2^31 and beyond the 53 bits of a double:
\* [hi, lo] is the non-negative integer hi * 2^53 + lo, with lo far below 2^53.
Wide(hi, lo) == [hi |-> hi, lo |-> lo]
Zero == Wide(0, 0)
Balances == {Wide(0, 5), Wide(0, 10)}

\* the distance of neighbouring doubles at hi * 2^53 for hi >= 1
RECURSIVE Ulp(_)
Ulp(hi) == IF hi <= 1 THEN 2 ELSE 2 * Ulp(hi \div 2)

\* the double nearest to w, ties to the even mantissa: Number(balance), and the
\* result of every + on numbers
RoundToDouble(w) ==
  IF w.hi = 0 THEN w
  ELSE LET s == Ulp(w.hi)
           q == w.lo \div s
           r == w.lo % s
           up == 2 * r > s \/ (2 * r = s /\ q % 2 = 1) IN
       Wide(w.hi, (IF up THEN q + 1 ELSE q) * s)

\* a + b on numbers
Plus(a, b) == RoundToDouble(Wide(a.hi + b.hi, a.lo + b.lo))

\* n * b on numbers, for a small whole number n
Times(n, b) == RoundToDouble(Wide(n * b.hi, n * b.lo))

\* a property that holds a number is not set
NoNumber == Wide(-1, 0)

\* String.prototype.toLowerCase
Lower(a) ==
  CASE a = "0xAB" -> "0xab"
    [] a = "0xTK" -> "0xtk"
    [] a = "0xEF" -> "0xef"
    [] OTHER -> a

\* variant: the address goes into the key as it was given
BalCacheKey_AsGiven(net, addr, tok) ==
  <<"getBalanceForAddress", net, addr, Lower(tok)>>

\* variant: neither address is lower-cased for the key
BalCacheKey_NoLower(net, addr, tok) ==
  <<"getBalanceForAddress", net, addr, tok>>

\* lines 147-150
BalCacheKey(net, addr, tok) ==
  <<"getBalanceForAddress", net, Lower(addr), Lower(tok)>>

\* lines 111-115
FeeCacheKey(net, target) ==
  <<"getFee", IF net = "livenet" THEN "mainnet" ELSE net, ToString(TargetParam(target)), "">>

IdleTask ==
  [op |-> "none", pc |-> "idle", net |-> "mainnet", addr |-> "", tok |-> NoToken,
   target |-> Undefined, probed |-> NoHandle, probeOk |-> TRUE, attempts |-> 0,
   web3 |-> NoHandle, key |-> <<>>, rid |-> 0, refresher |-> FALSE,
   rpcOk |-> TRUE, result |-> NoResult]

\* the caller of getWeb3 after `await this.getWeb3(network)`: it goes on at
\* `next` with the handle, or fails with what getWeb3 threw
AfterWeb3(r, res, probe, next) ==
  LET r1 == [r EXCEPT !.attempts = r.attempts + res.attempts] IN
  CASE res.st = "probing" -> [r1 EXCEPT !.pc = probe, !.probed = res.h]
    [] res.st = "throw"   -> [r1 EXCEPT !.pc = "failed"]
    [] OTHER              -> [r1 EXCEPT !.pc = next, !.web3 = res.h]

Probes(res) == IF res.st = "probing" THEN 1 ELSE 0

\* calls are numbered in the order in which they arrive
Arrives(t) ==
  /\ task[t].pc = "idle"
  /\ \A u \in Tasks : u < t => task[u].pc # "idle"

SetConn(c) ==
  /\ c.next <= MaxHandles + 1
  /\ rpcs' = c.rpcs
  /\ rpcsChain' = c.chain
  /\ nextHandle' = c.next

\* a caller enters getWeb3(network)
GetWeb3(t, net) ==
  /\ Arrives(t)
  /\ LET res == W3Begin(Conn, net, constructOk[net]) IN
       /\ SetConn(res.conn)
       /\ task' = [task EXCEPT ![t] =
            AfterWeb3([IdleTask EXCEPT !.op = "getWeb3", !.net = net], res, "probe", "done")]
       /\ issued' = [issued EXCEPT !.probe = @ + Probes(res)]
  /\ UNCHANGED <<dead, constructOk, feeVars, cacheVars, wal, apiVars>>

\* lines 143-145: getBalanceForAddress runs up to `await this.getWeb3(network)`
BalBegin(w, t, net, addr, tok, ok) ==
  LET res == W3Begin(w.conn, net, ok)
      r == [IdleTask EXCEPT !.op = "getBalanceForAddress", !.net = net,
                            !.addr = addr, !.tok = tok] IN
  [conn |-> res.conn,
   task |-> [w.task EXCEPT ![t] = AfterWeb3(r, res, "probe", "w3ret")],
   probes |-> w.probes + Probes(res)]

GetBalanceForAddress(t, net, addr, tok) ==
  /\ Arrives(t)
  /\ LET w == BalBegin([conn |-> Conn, task |-> task, probes |-> issued.probe],
                       t, net, addr, tok, constructOk[net]) IN
       /\ SetConn(w.conn)
       /\ task' = w.task
       /\ issued' = [issued EXCEPT !.probe = w.probes]
  /\ UNCHANGED <<dead, constructOk, feeVars, cacheVars, wal, apiVars>>

\* web3.eth.getBlockNumber() of the first getWeb3 of a call settles: rejected
\* on a broken connection
ProbeDone(t) ==
  /\ task[t].pc = "probe"
  /\ LET ok == task[t].probed \notin dead
         res == W3Resume(Conn, task[t].net, ok, constructOk[task[t].net])
         next == IF task[t].op = "getWeb3" THEN "done" ELSE "w3ret" IN
       /\ SetConn(res.conn)
       /\ task' = [task EXCEPT ![t] =
            AfterWeb3([task[t] EXCEPT !.probeOk = ok], res, "probe", next)]
  /\ UNCHANGED <<dead, constructOk, feeVars, cacheVars, issued, wal, apiVars>>

\* variant: an RPC error inside the producer is turned into a zero balance
BalanceOutcome_Swallow(ok, v) ==
  IF ok THEN [st |-> "ok", value |-> [confirmed |-> RoundToDouble(v), unconfirmed |-> Zero,
                                      balance |-> RoundToDouble(v)]]
  ELSE [st |-> "ok", value |-> [confirmed |-> Zero, unconfirmed |-> Zero, balance |-> Zero]]

\* lines 156-162: the producer turns the node's answer v, a decimal string,
\* into the balance object; a rejected RPC rejects the producer
BalanceOutcome(ok, v) ==
  IF ok THEN [st |-> "ok", value |-> [confirmed |-> RoundToDouble(v), unconfirmed |-> Zero,
                                      balance |-> RoundToDouble(v)]]
  ELSE [st |-> "throw", value |-> NoResult]

\* the caller of getGlobalOrRefresh after it found a live entry or joined a
\* refresh in flight
Entered(r, e) ==
  CASE e.kind = "hit"  -> [r EXCEPT !.pc = "done", !.result = e.value]
    [] e.kind = "join" -> [r EXCEPT !.pc = "wait", !.rid = e.rid]
    [] OTHER           -> [r EXCEPT !.rid = e.rid, !.refresher = TRUE]

\* lines 146-166: the call goes on after getWeb3 and calls getGlobalOrRefresh.
\* As refresher it runs the producer up to its first await: the balance RPC on
\* the handle it holds, or for a token erc20For, which is a getWeb3 of its own.
BalanceLookup(t) ==
  /\ task[t].pc = "w3ret"
  /\ LET r == [task[t] EXCEPT !.key = BalCacheKey(task[t].net, task[t].addr, task[t].tok)]
         e == Enter(cache, refresh, r.key, now)
         res == W3Begin(Conn, r.net, constructOk[r.net]) IN
       /\ issued' = [issued EXCEPT
            !.cache = @ + 1,
            !.rpc = @ + (IF e.kind = "refresh" /\ (r.tok = NoToken \/ res.st = "ok") THEN 1 ELSE 0),
            !.probe = @ + (IF e.kind = "refresh" /\ r.tok # NoToken THEN Probes(res) ELSE 0)]
       /\ IF e.kind # "refresh"
          THEN /\ task' = [task EXCEPT ![t] = Entered(r, e)]
               /\ UNCHANGED <<refresh, rpcs, rpcsChain, nextHandle>>
          ELSE IF r.tok = NoToken
          THEN /\ task' = [task EXCEPT ![t] = [Entered(r, e) EXCEPT !.pc = "rpc"]]
               /\ refresh' = e.refresh
               /\ UNCHANGED <<rpcs, rpcsChain, nextHandle>>
          ELSE /\ SetConn(res.conn)
               /\ task' = [task EXCEPT ![t] = AfterWeb3(Entered(r, e), res, "pprobe", "rpc")]
               /\ refresh' = IF res.st = "throw"
                             THEN Reject(cache, e.refresh, e.rid).refresh
                             ELSE e.refresh
  /\ UNCHANGED <<dead, constructOk, feeVars, cache, now, wal, apiVars>>

\* the probe of the getWeb3 inside erc20For settles; the producer goes on to
\* token.methods.balanceOf(address).call() or is rejected
ProducerProbeDone(t) ==
  /\ task[t].pc = "pprobe"
  /\ LET ok == task[t].probed \notin dead
         res == W3Resume(Conn, task[t].net, ok, constructOk[task[t].net]) IN
       /\ SetConn(res.conn)
       /\ task' = [task EXCEPT ![t] =
            AfterWeb3([task[t] EXCEPT !.probeOk = ok], res, "pprobe", "rpc")]
       /\ refresh' = IF res.st = "throw"
                     THEN Reject(cache, refresh, task[t].rid).refresh
                     ELSE refresh
       /\ issued' = [issued EXCEPT !.rpc = @ + (IF res.st = "ok" THEN 1 ELSE 0)]
  /\ UNCHANGED <<dead, constructOk, feeVars, cache, now, wal, apiVars>>

\* the producer has settled: getGlobalOrRefresh stores the value or passes the
\* failure on, and the refresher returns
Settle(t, ok, out) ==
  LET s == IF out.st = "ok"
           THEN Resolve(cache, refresh, task[t].rid, out.value, now, Minute)
           ELSE Reject(cache, refresh, task[t].rid) IN
  /\ cache' = s.cache
  /\ refresh' = s.refresh
  /\ task' = [task EXCEPT ![t] =
       IF out.st = "ok"
       THEN [@ EXCEPT !.pc = "done", !.result = out.value, !.rpcOk = ok]
       ELSE [@ EXCEPT !.pc = "failed", !.rpcOk = ok]]

\* the node answers getBalance / balanceOf with v, or the request fails; on a
\* broken connection it fails
RpcDone(t, ok, v) ==
  /\ task[t].pc = "rpc"
  /\ task[t].web3 \in dead => ~ok
  /\ Settle(t, ok, BalanceOutcome(ok, v))
  /\ UNCHANGED <<connVars, feeVars, now, issued, wal, apiVars>>

\* line 109-140: getFee calls getGlobalOrRefresh at once; as refresher it runs
\* the producer up to the query of the transactions
GetFee(t, net, target) ==
  /\ Arrives(t)
  /\ LET r == [IdleTask EXCEPT !.op = "getFee", !.net = net, !.target = target,
                               !.key = FeeCacheKey(net, target)]
         e == Enter(cache, refresh, r.key, now) IN
       /\ task' = [task EXCEPT ![t] =
            IF e.kind = "refresh" THEN [Entered(r, e) EXCEPT !.pc = "db"] ELSE Entered(r, e)]
       /\ refresh' = e.refresh
       /\ issued' = [issued EXCEPT !.cache = @ + 1,
                                   !.db = @ + (IF e.kind = "refresh" THEN 1 ELSE 0)]
  /\ UNCHANGED <<connVars, feeVars, cache, now, wal, apiVars>>

\* lines 126-137 on the answer of the store, or the query failed
FeeOutcome(ok, txs, target, up) ==
  IF ok
  THEN LET f == FeeOf(txs, target, up) IN
       [st |-> "ok", value |-> [feerate |-> f.feerate, blocks |-> f.blocks]]
  ELSE [st |-> "throw", value |-> NoResult]

DbDone(t, ok, up) ==
  /\ task[t].pc = "db"
  /\ Settle(t, ok, FeeOutcome(ok, feeTxs, task[t].target, up))
  /\ UNCHANGED <<connVars, feeVars, now, issued, wal, apiVars>>

\* a caller that joined a refresh is resumed with what the refresh came to
WaitDone(t) ==
  /\ task[t].pc = "wait"
  /\ refresh[task[t].rid].st # "pending"
  /\ task' = [task EXCEPT ![t] =
       IF refresh[task[t].rid].st = "ok"
       THEN [@ EXCEPT !.pc = "done", !.result = refresh[task[t].rid].value]
       ELSE [@ EXCEPT !.pc = "failed"]]
  /\ UNCHANGED <<connVars, feeVars, cacheVars, issued, wal, apiVars>>

(***************************************************************************)
(* getWalletBalance.                                                       *)
(***************************************************************************)
IdleWallet ==
  [pc |-> "idle", hasId |-> TRUE, net |-> "mainnet", tok |-> NoToken,
   addrs |-> <<>>, calls |-> <<>>, result |-> NoResult]

\* variant: the check of params.wallet._id is missing
GetWalletBalance_NoCheck(hasId, net, tok) ==
  /\ wal.pc = "idle"
  /\ wal' = [wal EXCEPT !.pc = "addrs", !.hasId = hasId, !.net = net, !.tok = tok]
  /\ issued' = [issued EXCEPT !.addresses = @ + 1]
  /\ UNCHANGED <<connVars, task, feeVars, cacheVars, apiVars>>

\* lines 309-313: without wallet._id the call throws; otherwise it asks the
\* store for the addresses of the wallet
GetWalletBalance(hasId, net, tok) ==
  /\ wal.pc = "idle"
  /\ IF ~hasId
     THEN /\ wal' = [wal EXCEPT !.pc = "failed", !.hasId = hasId, !.net = net, !.tok = tok]
          /\ UNCHANGED issued
     ELSE /\ wal' = [wal EXCEPT !.pc = "addrs", !.hasId = hasId, !.net = net, !.tok = tok]
          /\ issued' = [issued EXCEPT !.addresses = @ + 1]
  /\ UNCHANGED <<connVars, task, feeVars, cacheVars, apiVars>>

\* lines 314-316: addresses.map(..) calls getBalanceForAddress for the
\* addresses from i on, one after the other, each up to its first await
RECURSIVE LaunchCalls(_, _, _, _, _, _)
LaunchCalls(w, net, tok, ok, addrs, i) ==
  IF i > Len(addrs) THEN w
  ELSE LaunchCalls(BalBegin(w, i, net, addrs[i], tok, ok), net, tok, ok, addrs, i + 1)

\* the store answers with the addresses of the wallet, or the query fails
AddressesDone(ok, addrs) ==
  /\ wal.pc = "addrs"
  /\ \A t \in Tasks : task[t].pc = "idle"
  /\ IF ~ok
     THEN /\ wal' = [wal EXCEPT !.pc = "failed"]
          /\ UNCHANGED <<rpcs, rpcsChain, nextHandle, task, issued>>
     ELSE LET w == LaunchCalls([conn |-> Conn, task |-> task, probes |-> issued.probe],
                               wal.net, wal.tok, constructOk[wal.net], addrs, 1) IN
          /\ SetConn(w.conn)
          /\ task' = w.task
          /\ issued' = [issued EXCEPT !.probe = w.probes]
          /\ wal' = [wal EXCEPT !.pc = "all", !.addrs = addrs,
                                !.calls = [i \in 1..Len(addrs) |-> i]]
  /\ UNCHANGED <<dead, constructOk, feeVars, cacheVars, apiVars>>

\* variant: waits for all the promises and goes on with those that fulfilled
PromiseAll_Settled(pcs) ==
  IF \A i \in 1..Len(pcs) : pcs[i] \in {"done", "failed"} THEN "fulfilled" ELSE "pending"

\* lines 317-319: Promise.all rejects as soon as one promise rejected and
\* fulfills when all have fulfilled
PromiseAll(pcs) ==
  IF \E i \in 1..Len(pcs) : pcs[i] = "failed" THEN "rejected"
  ELSE IF \A i \in 1..Len(pcs) : pcs[i] = "done" THEN "fulfilled"
  ELSE "pending"

\* variant: a slip in the reducer
Accumulate_Slip(prev, cur) ==
  [unconfirmed |-> Plus(prev.unconfirmed, cur.unconfirmed),
   confirmed |-> Plus(prev.unconfirmed, cur.confirmed),
   balance |-> Plus(prev.balance, cur.balance)]

\* lines 321-325: the reducer
Accumulate(prev, cur) ==
  [unconfirmed |-> Plus(prev.unconfirmed, cur.unconfirmed),
   confirmed |-> Plus(prev.confirmed, cur.confirmed),
   balance |-> Plus(prev.balance, cur.balance)]

\* Array.prototype.reduce from the left
RECURSIVE Reduce(_, _)
Reduce(prev, bals) ==
  IF bals = <<>> THEN prev ELSE Reduce(Accumulate(prev, Head(bals)), Tail(bals))

\* lines 317-328: the call is resumed by Promise.all: it fails with the
\* rejection, or reduces the balances, in the order of the addresses
WalletSettle ==
  /\ wal.pc = "all"
  /\ LET st == PromiseAll([i \in 1..Len(wal.calls) |-> task[wal.calls[i]].pc])
         got == SelectSeq(wal.calls, LAMBDA c : task[c].pc = "done")
         bals == [i \in 1..Len(got) |-> task[got[i]].result] IN
       /\ st # "pending"
       /\ wal' = IF st = "rejected"
                 THEN [wal EXCEPT !.pc = "failed"]
                 ELSE [wal EXCEPT !.pc = "done",
                         !.result = Reduce([unconfirmed |-> Zero, confirmed |-> Zero,
                                            balance |-> Zero], bals)]
  /\ UNCHANGED <<connVars, task, feeVars, cacheVars, issued, apiVars>>

(***************************************************************************)
(* Erc20RelatedFilterTransform.  Records are objects: heap[id] is the      *)
(* object with identity id, so that a copy and an alias differ.            *)
(***************************************************************************)
\* the property is not there
Absent == "<absent>"

\* variant: the token address is compared without regard to case
Matches_AnyCase(contractAddress, token) == Lower(contractAddress) = Lower(token)

\* line 14: effect.contractAddress === this.tokenAddress
Matches(contractAddress, token) == contractAddress = token

\* line 11: tx.effects && tx.effects.length
HasEffects(tx) == tx.hasEffects /\ Len(tx.effects) # 0

\* lines 13-15: Array.prototype.filter keeps the order
TokenRelated(tx, token) ==
  SelectSeq(tx.effects, LAMBDA e : Matches(e.contractAddress, token))

\* variant: the record is used as it is, not copied
CopyObject_Alias(h, src) == [heap |-> h, id |-> src]

\* line 19: Object.assign({}, tx) makes a new object with the properties of tx
CopyObject(h, src) == [heap |-> Append(h, h[src]), id |-> Len(h) + 1]

\* lines 19-26 for one effect: st is [heap, out]
PushTransfer(st, src, e) ==
  LET c == CopyObject(st.heap, src)
      h1 == [c.heap EXCEPT ![c.id].value = RoundToDouble(e.amount),
                           ![c.id].to = e.to,
                           ![c.id].from = e.from]
      h2 == IF e.from # h1[src].from
            THEN [h1 EXCEPT ![c.id].initialFrom = h1[src].from]
            ELSE h1 IN
  [heap |-> h2, out |-> Append(st.out, c.id)]

\* lines 18-27: the loop over the token related effects
RECURSIVE PushAll(_, _, _)
PushAll(st, src, es) ==
  IF es = <<>> THEN st ELSE PushAll(PushTransfer(st, src, Head(es)), src, Tail(es))

\* lines 10-30: _transform(tx, _, done) runs without suspension
TransformOf(x, tx) ==
  LET src == Len(x.heap) + 1
      st0 == [heap |-> Append(x.heap, tx), out |-> x.out]
      st == IF HasEffects(tx) THEN PushAll(st0, src, TokenRelated(tx, x.token)) ELSE st0 IN
  [x EXCEPT !.heap = st.heap, !.out = st.out,
            !.inputs = Append(@, src), !.arrived = Append(@, tx),
            !.dones = @ + 1]

\* a record is written to the transform; records are numbered as they arrive
Write(tx) ==
  /\ Len(xf.inputs) < MaxInputs
  /\ xf' = TransformOf(xf, [tx EXCEPT !.txid = Len(xf.inputs) + 1])
  /\ UNCHANGED <<coreVars, txc, uw, ws, bc, cli>>

(***************************************************************************)
(* getTransaction and streamTransactions.  txc holds the call and the part *)
(* of the store it reads: the local tip and the record with the txid asked *)
(* for.                                                                    *)
(***************************************************************************)
\* blockHeight === undefined, and no tip at all
NoHeight == -1000

\* a JavaScript number used as a condition
Truthy(n) == n # NoHeight /\ n # 0

\* lines 208 and 293: tip ? tip.height : 0
TipHeight(tip) == IF tip = NoHeight THEN 0 ELSE tip

\* lines 211-214
ConfirmationsOfGet(tipHeight, blockHeight) ==
  IF Truthy(blockHeight) /\ blockHeight >= 0 THEN tipHeight - blockHeight + 1 ELSE 0

\* lines 295-298
ConfirmationsOfStream(tipHeight, blockHeight) ==
  IF blockHeight # NoHeight /\ blockHeight >= 0 THEN tipHeight - blockHeight + 1 ELSE 0

\* receipt is null or undefined; a receipt is known by its gasUsed
NoReceipt == 0

\* variant: the fee is the gas price, not multiplied by the gas used
FeeOfReceipt_PriceOnly(gasUsed, gasPrice) == gasPrice

\* line 183: receipt.gasUsed * tx.gasPrice
FeeOfReceipt(gasUsed, gasPrice) == Times(gasUsed, gasPrice)

\* the receipt and fee fields of a record or of a document
ReceiptFields(gasUsed, fee) == [gasUsed |-> gasUsed, fee |-> fee]

\* line 176: getTransactionReceipt goes out on the handle h
FetchReceipt(q, h) ==
  [q EXCEPT !.pc = "receipt", !.web3 = h, !.nodeCalls = @ + 1, !.fetches = @ + 1]

NotSeen == [seen |-> FALSE, confirmations |-> 0]
Seen(c) == [seen |-> TRUE, confirmations |-> c]

\* a call begins: what earlier calls reported and the store stay
BeginQuery(op, valid) ==
  [txc EXCEPT !.op = op, !.valid = valid, !.outcome = "none", !.logged = FALSE,
              !.queries = 0, !.nodeCalls = 0, !.writes = 0, !.tipHeight = 0,
              !.confirmations = 0, !.probed = NoHandle, !.web3 = NoHandle,
              !.fetches = 0, !.found = ReceiptFields(NoReceipt, NoNumber),
              !.set = ReceiptFields(NoReceipt, NoNumber), !.before = txc.stored]

\* line 223-226: whatever was thrown inside getTransaction is logged, and the
\* call resolves to undefined
Caught(q) == [q EXCEPT !.pc = "done", !.outcome = "undefined", !.logged = TRUE]

\* an async function that throws: the caller gets a rejected promise
Thrown(q) == [q EXCEPT !.pc = "done", !.outcome = "error"]

\* lines 199-207
GetTransaction(txIdIsString, hasChain, hasNetwork) ==
  /\ txc.pc = "idle"
  /\ LET q == BeginQuery("getTransaction", txIdIsString /\ hasChain /\ hasNetwork) IN
     txc' = IF ~txIdIsString \/ ~hasChain \/ ~hasNetwork
            THEN Caught(q)
            ELSE [q EXCEPT !.pc = "tip", !.queries = 1]
  /\ UNCHANGED <<coreVars, xf, uw, ws, bc, cli>>

\* lines 276-292
StreamTransactions(hasChain, hasNetwork) ==
  /\ txc.pc = "idle"
  /\ LET q == BeginQuery("streamTransactions", hasChain /\ hasNetwork) IN
     txc' = IF ~hasChain \/ ~hasNetwork
            THEN Thrown(q)
            ELSE [q EXCEPT !.pc = "tip", !.queries = 1]
  /\ UNCHANGED <<coreVars, xf, uw, ws, bc, cli>>

\* getLocalTip has answered, or failed: lines 208-209 and 293-294
TxTipDone(ok) ==
  /\ txc.pc = "tip"
  /\ txc' = IF ok
            THEN [txc EXCEPT !.pc = IF txc.op = "getTransaction" THEN "find" ELSE "stream",
                             !.tipHeight = TipHeight(txc.tip),
                             !.queries = @ + 1]
            ELSE IF txc.op = "getTransaction" THEN Caught(txc) ELSE Thrown(txc)
  /\ UNCHANGED <<coreVars, xf, uw, ws, bc, cli>>

\* lines 217-219 and 221: the call returns
Returned(q) ==
  IF q.indexed
  THEN [q EXCEPT !.pc = "done", !.outcome = "value",
                 !.reported.getTransaction = Seen(q.confirmations)]
  ELSE [q EXCEPT !.pc = "done", !.outcome = "undefined"]

\* variant: the receipt is asked for by txId before the record is looked at
NeedsReceipt_Unchecked(found, hasReceipt) == ~hasReceipt

\* lines 210, 215 and 180
NeedsReceipt(found, hasReceipt) == found /\ ~hasReceipt

\* findOne has answered, or failed: lines 210-215, and populateReceipt up to
\* the first await of the getWeb3 in getReceipt
TxFindDone(ok) ==
  /\ txc.pc = "find"
  /\ LET q == [txc EXCEPT !.confirmations =
                 IF txc.indexed THEN ConfirmationsOfGet(txc.tipHeight, txc.blockHeight) ELSE 0,
                           !.found = txc.stored]
         res == W3Begin(Conn, "mainnet", constructOk["mainnet"]) IN
     IF ~ok
     THEN /\ txc' = Caught(txc)
          /\ UNCHANGED <<rpcs, rpcsChain, nextHandle>>
     ELSE IF ~NeedsReceipt(txc.indexed, txc.indexed /\ txc.hasReceipt)
     THEN /\ txc' = Returned(q)
          /\ UNCHANGED <<rpcs, rpcsChain, nextHandle>>
     ELSE /\ SetConn(res.conn)
          /\ txc' = CASE res.st = "probing" ->
                           [q EXCEPT !.pc = "probe", !.probed = res.h, !.nodeCalls = @ + 1]
                      [] res.st = "throw" -> Caught(q)
                      [] OTHER -> FetchReceipt(q, res.h)
  /\ UNCHANGED <<dead, constructOk, task, feeVars, cacheVars, issued, wal, xf, uw, ws, bc, cli>>

\* lines 175-176: the probe of getWeb3 settles and getTransactionReceipt goes out
TxProbeDone ==
  /\ txc.pc = "probe"
  /\ LET res == W3Resume(Conn, "mainnet", txc.probed \notin dead, constructOk["mainnet"]) IN
     /\ SetConn(res.conn)
     /\ txc' = IF res.st = "throw" THEN Caught(txc)
               ELSE FetchReceipt(txc, res.h)
  /\ UNCHANGED <<dead, constructOk, task, feeVars, cacheVars, issued, wal, xf, uw, ws, bc, cli>>

\* lines 181-184: the node answers with a receipt, with none, or fails; with
\* a receipt the fee is computed and updateOne goes out
TxReceiptDone(ok, gasUsed) ==
  /\ txc.pc = "receipt"
  /\ txc.web3 \in dead => ~ok
  /\ txc' = IF ~ok THEN Caught(txc)
            ELSE IF gasUsed # NoReceipt
            THEN [txc EXCEPT !.pc = "write", !.writes = @ + 1,
                             !.set = ReceiptFields(gasUsed, FeeOfReceipt(gasUsed, txc.gasPrice))]
            ELSE Returned(txc)
  /\ UNCHANGED <<coreVars, xf, uw, ws, bc, cli>>

\* lines 184-189: updateOne has stored receipt and fee, or failed
TxWriteDone(ok) ==
  /\ txc.pc = "write"
  /\ txc' = IF ok
            THEN Returned([txc EXCEPT !.hasReceipt = TRUE, !.stored = txc.set,
                                      !.found = txc.set])
            ELSE Caught(txc)
  /\ UNCHANGED <<coreVars, xf, uw, ws, bc, cli>>

\* lines 294-305: the transform of apiStreamingFind on the record
TxStreamRecord ==
  /\ txc.pc = "stream"
  /\ txc' = IF txc.indexed
            THEN LET c == ConfirmationsOfStream(txc.tipHeight, txc.blockHeight) IN
                 [txc EXCEPT !.pc = "done", !.outcome = "value", !.confirmations = c,
                             !.reported.streamTransactions = Seen(c)]
            ELSE [txc EXCEPT !.pc = "done", !.outcome = "value"]
  /\ UNCHANGED <<coreVars, xf, uw, ws, bc, cli>>

\* the caller has its answer
TxReturn ==
  /\ txc.pc = "done"
  /\ txc' = [txc EXCEPT !.pc = "idle"]
  /\ UNCHANGED <<coreVars, xf, uw, ws, bc, cli>>

(***************************************************************************)
(* updateWallet.  uw holds the call and the two collections it writes:     *)
(* uw.wa, the wallet addresses, and uw.txs, the transactions.              *)
(***************************************************************************)
\* err.code of a duplicate key error, and of any other write error
DuplicateKey == 11000
OtherError == 1
NoError == 0

\* params.wallet._id
WalletId == "W1"

\* utils/partition: consecutive pieces of n elements, the last one shorter
RECURSIVE Partition(_, _)
Partition(seq, n) ==
  IF seq = <<>> THEN <<>>
  ELSE IF Len(seq) <= n THEN <<seq>>
  ELSE <<SubSeq(seq, 1, n)>> \o Partition(SubSeq(seq, n + 1, Len(seq)), n)

Range(seq) == {seq[i] : i \in 1..Len(seq)}

\* the unique index of the wallet addresses: one document per wallet and address
Registered(wa, address) == \E i \in 1..Len(wa) : wa[i].address = address

\* collection.bulkWrite of insertOne operations, in order: it stops at the
\* first operation that fails and reports its error
RECURSIVE BulkWrite(_, _)
BulkWrite(wa, batch) ==
  IF batch = <<>> THEN [wa |-> wa, code |-> NoError]
  ELSE IF Registered(wa, Head(batch)) THEN [wa |-> wa, code |-> DuplicateKey]
  ELSE BulkWrite(Append(wa, [address |-> Head(batch), processed |-> FALSE]), Tail(batch))

\* variant: every write error is rethrown
Suppressed_None(code) == FALSE

\* lines 585-589: the catch lets the duplicate key error pass
Suppressed(code) == code = DuplicateKey

\* variant: $push
AddToSet_Push(wallets, id) == Append(wallets, id)

\* line 612: $addToSet
AddToSet(wallets, id) == IF id \in Range(wallets) THEN wallets ELSE Append(wallets, id)

\* lines 594-611: the transactions of the batch
Tagged(tx, batch) ==
  \/ tx.from \in Range(batch)
  \/ tx.to \in Range(batch)
  \/ tx.effectsTo \in {Lower(a) : a \in Range(batch)}
  \/ tx.effectsFrom \in {Lower(a) : a \in Range(batch)}

\* lines 593-613: updateMany on the transactions
TagTransactions(txs, batch) ==
  [i \in 1..Len(txs) |->
     IF Tagged(txs[i], batch)
     THEN [txs[i] EXCEPT !.wallets = AddToSet(@, WalletId)]
     ELSE txs[i]]

\* lines 615-618: updateMany on the wallet addresses
MarkProcessed(wa, batch) ==
  [i \in 1..Len(wa) |->
     IF wa[i].address \in Range(batch) THEN [wa[i] EXCEPT !.processed = TRUE] ELSE wa[i]]

\* variant: the addresses are marked before the transactions are tagged
StageAfter_MarkFirst(stage) ==
  CASE stage = "insert" -> "mark"
    [] stage = "mark" -> "tag"
    [] OTHER -> "next"

\* lines 583-618: the awaits of one batch, in their order
StageAfter(stage) ==
  CASE stage = "insert" -> "tag"
    [] stage = "tag" -> "mark"
    [] OTHER -> "next"

\* the call fails with what was thrown
UpdateFailed(u, code) == [u EXCEPT !.pc = "failed", !.error = code]

\* the request of a stage of batch b goes out
Request(u, stage, b) ==
  [u EXCEPT !.pc = stage, !.batch = b, !.log = Append(@, <<stage, b>>)]

\* the call goes on after a stage of the current batch: with the next stage,
\* with the next batch (line 574), or it returns
GoOn(u) ==
  LET next == StageAfter(u.pc) IN
  IF next # "next" THEN Request(u, next, u.batch)
  ELSE IF u.batch < Len(u.batches) THEN Request(u, "insert", u.batch + 1)
  ELSE [u EXCEPT !.pc = "done"]

\* lines 571-584
UpdateWallet(addresses) ==
  /\ uw.pc = "idle"
  /\ uw.runs < MaxRuns
  /\ LET u == [uw EXCEPT !.addrs = addresses,
                         !.batches = Partition(addresses, BatchSize),
                         !.rerun = (uw.completed /\ uw.addrs = addresses),
                         !.completed = FALSE,
                         !.before = [wa |-> uw.wa, txs |-> uw.txs],
                         !.log = <<>>, !.error = NoError, !.batch = 0,
                         !.lastCode = NoError, !.suppressed = 0,
                         !.runs = @ + 1] IN
     uw' = IF u.batches = <<>> THEN [u EXCEPT !.pc = "done"] ELSE Request(u, "insert", 1)
  /\ UNCHANGED <<coreVars, xf, txc, ws, bc, cli>>

\* one of the three writes of the current batch has completed, or has
\* failed with something other than a duplicate key
WriteDone(ok) ==
  /\ uw.pc \in {"insert", "tag", "mark"}
  /\ LET batch == uw.batches[uw.batch]
         w == BulkWrite(uw.wa, batch) IN
     uw' = CASE uw.pc = "insert" ->
                  LET code == IF ok THEN w.code ELSE OtherError
                      u == [uw EXCEPT !.wa = IF ok THEN w.wa ELSE @, !.lastCode = code] IN
                  IF code = NoError THEN GoOn(u)
                  ELSE IF Suppressed(code) THEN GoOn([u EXCEPT !.suppressed = @ + 1])
                  ELSE UpdateFailed(u, code)
             [] uw.pc = "tag" ->
                  IF ok THEN GoOn([uw EXCEPT !.txs = TagTransactions(@, batch),
                                             !.lastCode = NoError])
                  ELSE UpdateFailed([uw EXCEPT !.lastCode = OtherError], OtherError)
             [] OTHER ->
                  IF ok THEN GoOn([uw EXCEPT !.wa = MarkProcessed(@, batch),
                                             !.lastCode = NoError])
                  ELSE UpdateFailed([uw EXCEPT !.lastCode = OtherError], OtherError)
  /\ UNCHANGED <<coreVars, xf, txc, ws, bc, cli>>

\* the caller has its answer
UpdateReturn ==
  /\ uw.pc \in {"done", "failed"}
  /\ uw' = [uw EXCEPT !.pc = "idle", !.completed = (uw.pc = "done")]
  /\ UNCHANGED <<coreVars, xf, txc, ws, bc, cli>>

(***************************************************************************)
(* streamWalletTransactions.  ws holds the call and the pipes it builds:   *)
(* ws.stages are the transforms in pipe order, ws.q[i] the records waiting *)
(* for stage i, and the last queue is what the response has received.      *)
(***************************************************************************)
\* the addresses getWalletAddresses answers with
WalletOwned == {"0xB"}

\* web3.utils.toChecksumAddress throws on a string that is no address
Invalid == "<invalid>"

\* line 398
ToChecksumAddress(a) ==
  CASE a \in {"0xtk", "0xTK"} -> "0xTK"
    [] a \in {"0xt2", "0xT2"} -> "0xT2"
    [] OTHER -> Invalid

\* variant: the filter is piped after the two population stages
Pipeline_FilterLast(hasId, tokenAddress) ==
  <<"receipt", "effects">>
  \o (IF tokenAddress = "" /\ hasId THEN <<"internal">> ELSE <<>>)
  \o (IF tokenAddress # "" THEN <<"erc20">> ELSE <<>>)
  \o <<"shape">>

\* lines 392-407: the transforms in the order they are piped
Pipeline(hasId, tokenAddress) ==
  (IF tokenAddress = "" /\ hasId THEN <<"internal">> ELSE <<>>)
  \o (IF tokenAddress # "" THEN <<"erc20">> ELSE <<>>)
  \o <<"receipt", "effects", "shape">>

\* a record of the cursor on its way: src numbers the records of the cursor
Item(src, tx, receipt) ==
  [src |-> src, tx |-> tx, receipt |-> receipt, shaped |-> FALSE, passed |-> <<>>]

\* the copies a filter pushes for the effects es of a record
Expand(item, es) ==
  LET st == PushAll([heap |-> <<item.tx>>, out |-> <<>>], 1, es) IN
  [k \in 1..Len(st.out) |-> [item EXCEPT !.tx = st.heap[st.out[k]]]]

\* Erc20RelatedFilterTransform._transform
Erc20Stage(item, token) ==
  IF HasEffects(item.tx) THEN Expand(item, TokenRelated(item.tx, token)) ELSE <<>>

\* the effects of native internal transfers from or to an address of the wallet
InternalRelated(tx, addresses) ==
  SelectSeq(tx.effects, LAMBDA e : /\ e.contractAddress = Absent
                                   /\ (e.from \in addresses \/ e.to \in addresses))

\* InternalTxRelatedFilterTransform._transform
InternalStage(item, addresses) ==
  IF HasEffects(item.tx) THEN Expand(item, InternalRelated(item.tx, addresses)) ELSE <<>>

\* lines 179-190: a record without receipt gets the one the node has, if any
PopulateReceipt(item, found) ==
  IF ~item.receipt THEN [item EXCEPT !.receipt = found] ELSE item

\* EVMTransactionStorage.getEffects: a call of a contract decodes as a transfer
GetEffects(tx) ==
  <<[contractAddress |-> tx.to, from |-> tx.from, to |-> "0xB", amount |-> tx.value]>>

\* lines 192-197
PopulateEffects(item) ==
  IF ~item.tx.hasEffects \/ (item.tx.hasEffects /\ Len(item.tx.effects) = 0)
  THEN [item EXCEPT !.tx.hasEffects = TRUE, !.tx.effects = GetEffects(item.tx)]
  ELSE item

\* EVMListTransactionsStream._transform
Shape(item) == [item EXCEPT !.shaped = TRUE]

\* what a stage pushes for a record
StageOutputs(stage, item, token, found) ==
  CASE stage = "erc20" -> Erc20Stage(item, token)
    [] stage = "internal" -> InternalStage(item, WalletOwned)
    [] stage = "receipt" -> <<PopulateReceipt(item, found)>>
    [] stage = "effects" -> <<PopulateEffects(item)>>
    [] OTHER -> <<Shape(item)>>

StreamFailed(w) == [w EXCEPT !.pc = "failed"]

\* line 382: getWalletAddresses goes out
AskAddresses(w, h) == [w EXCEPT !.pc = "addresses", !.web3 = h]

\* lines 376-378: the call enters getWeb3
StreamWalletTransactions(hasId, tokenAddress) ==
  /\ ws.pc = "idle"
  /\ LET res == W3Begin(Conn, "mainnet", constructOk["mainnet"])
         w == [ws EXCEPT !.hasId = hasId, !.tokenAddress = tokenAddress] IN
     /\ SetConn(res.conn)
     /\ ws' = CASE res.st = "probing" -> [w EXCEPT !.pc = "probe", !.probed = res.h]
                [] res.st = "throw" -> StreamFailed(w)
                [] OTHER -> AskAddresses(w, res.h)
  /\ UNCHANGED <<dead, constructOk, task, feeVars, cacheVars, issued, wal, xf, txc, uw, bc, cli>>

\* line 378: the probe of getWeb3 settles
StreamProbeDone ==
  /\ ws.pc = "probe"
  /\ LET res == W3Resume(Conn, "mainnet", ws.probed \notin dead, constructOk["mainnet"]) IN
     /\ SetConn(res.conn)
     /\ ws' = IF res.st = "throw" THEN StreamFailed(ws) ELSE AskAddresses(ws, res.h)
  /\ UNCHANGED <<dead, constructOk, task, feeVars, cacheVars, issued, wal, xf, txc, uw, bc, cli>>

\* lines 382-407: getWalletAddresses has answered, or failed; the pipes are set
\* up and the call returns
StreamAddressesDone(ok) ==
  /\ ws.pc = "addresses"
  /\ LET stages == Pipeline(ws.hasId, ws.tokenAddress)
         token == IF ws.tokenAddress # "" THEN ToChecksumAddress(ws.tokenAddress) ELSE "" IN
     ws' = IF ~ok \/ token = Invalid
           THEN StreamFailed(ws)
           ELSE [ws EXCEPT !.pc = "flow", !.token = token, !.stages = stages,
                           !.q = [i \in 1..(Len(stages) + 1) |-> <<>>]]
  /\ UNCHANGED <<coreVars, xf, txc, uw, bc, cli>>

\* the cursor hands its next record to the first pipe
Cursor(tx, receipt) ==
  /\ ws.pc = "flow"
  /\ ws.read < MaxRecords
  /\ ws' = [ws EXCEPT !.read = @ + 1,
                      !.q[1] = Append(@, Item(ws.read + 1, [tx EXCEPT !.txid = ws.read + 1],
                                              receipt))]
  /\ UNCHANGED <<coreVars, xf, txc, uw, bc, cli>>

\* stage i transforms the record at the head of its queue and pushes what it
\* makes of it to the next pipe; the node has a receipt for the record or none
StageStep(i, found) ==
  /\ ws.pc = "flow"
  /\ i \in 1..Len(ws.stages)
  /\ ws.q[i] # <<>>
  /\ LET item == Head(ws.q[i])
         stage == ws.stages[i]
         outs == StageOutputs(stage, item, ws.token, found) IN
     ws' = [ws EXCEPT !.q[i] = Tail(@),
                      !.q[i + 1] = @ \o [k \in 1..Len(outs) |->
                                           [outs[k] EXCEPT !.passed = Append(@, stage)]],
                      !.dropped = IF outs = <<>> THEN @ \cup {item.src} ELSE @,
                      !.lost = IF outs = <<>> THEN @ \cup {item.tx} ELSE @,
                      !.receiptRan = IF stage = "receipt" THEN @ \cup {item.src} ELSE @,
                      !.effectsRan = IF stage = "effects" THEN @ \cup {item.src} ELSE @,
                      !.nodeCalls = IF stage = "receipt" /\ ~item.receipt THEN @ + 1 ELSE @]
  /\ UNCHANGED <<coreVars, xf, txc, uw, bc, cli>>

(***************************************************************************)
(* broadcastTransaction.  bc holds the call; bc.sent is the log of what    *)
(* was handed to sendSignedTransaction, in the order it was handed over.   *)
(***************************************************************************)
\* the hash the node announces for a raw transaction, and the error with
\* which it rejects it
Hash(tx) == CASE tx = "raw1" -> "hash1" [] tx = "raw2" -> "hash2" [] OTHER -> "hash3"
Rejection(tx) == CASE tx = "raw1" -> "err1" [] tx = "raw2" -> "err2" [] OTHER -> "err3"

\* line 232: typeof rawTx === 'string' ? [rawTx] : rawTx
RawTxs(rawTx) == IF rawTx.isString THEN <<rawTx.string>> ELSE rawTx.list

\* variant: the ids are returned as a list whatever their number
ResultOf_List(txids) == [single |-> FALSE, ids |-> txids]

\* line 247: txids.length === 1 ? txids[0] : txids
ResultOf(txids) == [single |-> Len(txids) = 1, ids |-> txids]

BroadcastFailed(b, error) == [b EXCEPT !.pc = "failed", !.error = error]

\* lines 234-237: the loop hands its next transaction to the node, or the
\* call returns
SendNext(b, h) ==
  IF Len(b.txids) < Len(b.rawTxs)
  THEN [b EXCEPT !.pc = "send", !.web3 = h,
                 !.sent = Append(@, [index |-> Len(b.txids) + 1,
                                     tx |-> b.rawTxs[Len(b.txids) + 1]])]
  ELSE [b EXCEPT !.pc = "done", !.web3 = h, !.result = ResultOf(b.txids)]

\* lines 229-231: the call enters getWeb3
BroadcastTransaction(rawTx) ==
  /\ bc.pc = "idle"
  /\ LET res == W3Begin(Conn, "mainnet", constructOk["mainnet"])
         b == [bc EXCEPT !.rawTxs = RawTxs(rawTx)] IN
     /\ SetConn(res.conn)
     /\ bc' = CASE res.st = "probing" -> [b EXCEPT !.pc = "probe", !.probed = res.h]
                [] res.st = "throw" -> BroadcastFailed(b, "construct")
                [] OTHER -> SendNext(b, res.h)
  /\ UNCHANGED <<dead, constructOk, task, feeVars, cacheVars, issued, wal, xf, txc, uw, ws, cli>>

\* line 231: the probe of getWeb3 settles
BroadcastProbeDone ==
  /\ bc.pc = "probe"
  /\ LET res == W3Resume(Conn, "mainnet", bc.probed \notin dead, constructOk["mainnet"]) IN
     /\ SetConn(res.conn)
     /\ bc' = IF res.st = "throw" THEN BroadcastFailed(bc, "construct")
              ELSE SendNext(bc, res.h)
  /\ UNCHANGED <<dead, constructOk, task, feeVars, cacheVars, issued, wal, xf, txc, uw, ws, cli>>

\* lines 238 and 245: 'transactionHash' resolves the promise, the id is pushed
TransactionHash ==
  /\ bc.pc = "send"
  /\ bc.web3 \notin dead
  /\ LET tx == bc.rawTxs[Len(bc.txids) + 1] IN
     bc' = SendNext([bc EXCEPT !.txids = Append(@, Hash(tx))], bc.web3)
  /\ UNCHANGED <<coreVars, xf, txc, uw, ws, cli>>

\* lines 239-243: 'error', or the rejected send, rejects the promise, and the
\* rejection leaves the loop and the call
SendError ==
  /\ bc.pc = "send"
  /\ LET tx == bc.rawTxs[Len(bc.txids) + 1] IN
     bc' = BroadcastFailed([bc EXCEPT !.logged = @ + 1], Rejection(tx))
  /\ UNCHANGED <<coreVars, xf, txc, uw, ws, cli>>

\* lines 239-243: an error of a transaction whose hash was announced before:
\* reject on the settled promise does nothing, the catch logs
LateError ==
  /\ bc.pc \in {"send", "done"}
  /\ bc.logged < Len(bc.txids)
  /\ bc' = [bc EXCEPT !.logged = @ + 1]
  /\ UNCHANGED <<coreVars, xf, txc, uw, ws, cli>>

(***************************************************************************)
(* The token-add command.  cli holds the run of main and the wallet it     *)
(* loaded; cli.added is the log of the addToken calls, each with the       *)
(* wallet.tokens it found.                                                 *)
(***************************************************************************)
\* line 19: ['MATIC', 'ETH'].includes(wallet.chain)
TokenChain(chain) == chain \in {"MATIC", "ETH"}

\* line 28: wallet.tokens.find(f => f.symbol === token.symbol)
Existing(tokens, symbol) == SelectSeq(tokens, LAMBDA f : f.symbol = symbol)

\* variant: only the token that find returned is taken out
WithoutSymbol_Found(tokens, symbol) ==
  LET first == CHOOSE i \in 1..Len(tokens) :
                 /\ tokens[i].symbol = symbol
                 /\ \A j \in 1..(i - 1) : tokens[j].symbol # symbol IN
  SubSeq(tokens, 1, first - 1) \o SubSeq(tokens, first + 1, Len(tokens))

\* line 35: wallet.tokens.filter(f => f.symbol !== token.symbol)
WithoutSymbol(tokens, symbol) == SelectSeq(tokens, LAMBDA f : f.symbol # symbol)

\* lines 39-41: whatever main throws is printed, and main returns
Printed(c) == [c EXCEPT !.pc = "done", !.error = TRUE]

\* line 37: wallet.addToken(tokenObj) is called
CallAddToken(c) ==
  [c EXCEPT !.pc = "add", !.added = Append(@, [token |-> c.tokenObj, tokens |-> c.tokens])]

\* lines 15-18: main runs up to the load of the wallet
Main(contractAddress) ==
  /\ cli.pc = "idle"
  /\ cli' = [cli EXCEPT !.pc = "load", !.contractAddress = contractAddress]
  /\ UNCHANGED <<coreVars, xf, txc, uw, ws, bc>>

\* lines 18-22: the wallet is loaded, or not; getToken goes out for a wallet
\* of a chain with tokens
LoadWalletDone(ok) ==
  /\ cli.pc = "load"
  /\ cli' = IF ~ok \/ ~TokenChain(cli.chain) THEN Printed(cli)
            ELSE [cli EXCEPT !.pc = "getToken"]
  /\ UNCHANGED <<coreVars, xf, txc, uw, ws, bc>>

\* lines 22-32 and 37: the token is fetched, or not; with a token of the same
\* symbol in the wallet the user is asked, else addToken is called
GetTokenDone(ok, symbol) ==
  /\ cli.pc = "getToken"
  /\ LET c == [cli EXCEPT !.tokenObj = [symbol |-> symbol, address |-> cli.contractAddress]] IN
     cli' = IF ~ok THEN Printed(cli)
            ELSE IF Existing(cli.tokens, symbol) # <<>>
            THEN [c EXCEPT !.pc = "confirm", !.asked = @ + 1]
            ELSE CallAddToken(c)
  /\ UNCHANGED <<coreVars, xf, txc, uw, ws, bc>>

\* lines 31-37: the user has answered, or the prompt failed
ConfirmDone(ok, ans) ==
  /\ cli.pc = "confirm"
  /\ cli' = IF ~ok THEN Printed(cli)
            ELSE IF ~ans THEN [cli EXCEPT !.pc = "done", !.ans = "no"]
            ELSE CallAddToken([cli EXCEPT !.ans = "yes",
                                 !.tokens = WithoutSymbol(@, cli.tokenObj.symbol)])
  /\ UNCHANGED <<coreVars, xf, txc, uw, ws, bc>>

\* lines 37-38: addToken has put the token into the wallet, or failed
AddTokenDone(ok) ==
  /\ cli.pc = "add"
  /\ cli' = IF ok THEN [cli EXCEPT !.pc = "done", !.tokens = Append(@, cli.tokenObj)]
            ELSE Printed(cli)
  /\ UNCHANGED <<coreVars, xf, txc, uw, ws, bc>>

(***************************************************************************)
(* The calls and streams below start out idle.                             *)
(***************************************************************************)
IdleTransform ==
  [token |-> "", heap |-> <<>>, inputs |-> <<>>, arrived |-> <<>>, out |-> <<>>,
   dones |-> 0]
IdleQuery ==
  [pc |-> "idle", op |-> "none", valid |-> TRUE, outcome |-> "none", logged |-> FALSE,
   queries |-> 0, nodeCalls |-> 0, writes |-> 0, tipHeight |-> 0, confirmations |-> 0,
   probed |-> NoHandle, web3 |-> NoHandle,
   reported |-> [getTransaction |-> NotSeen, streamTransactions |-> NotSeen],
   tip |-> NoHeight, indexed |-> FALSE, blockHeight |-> NoHeight, hasReceipt |-> FALSE,
   gasPrice |-> Zero, stored |-> ReceiptFields(NoReceipt, NoNumber),
   found |-> ReceiptFields(NoReceipt, NoNumber), set |-> ReceiptFields(NoReceipt, NoNumber),
   before |-> ReceiptFields(NoReceipt, NoNumber), fetches |-> 0]
IdleUpdate ==
  [pc |-> "idle", addrs |-> <<>>, batches |-> <<>>, batch |-> 0, rerun |-> FALSE,
   completed |-> FALSE, before |-> [wa |-> <<>>, txs |-> <<>>], log |-> <<>>,
   error |-> NoError, lastCode |-> NoError, suppressed |-> 0, runs |-> 0,
   wa |-> <<>>, txs |-> <<>>]
IdleStream ==
  [pc |-> "idle", hasId |-> FALSE, tokenAddress |-> "", token |-> "", probed |-> NoHandle,
   web3 |-> NoHandle, stages |-> <<>>, q |-> <<>>, read |-> 0, dropped |-> {},
   lost |-> {},
   receiptRan |-> {}, effectsRan |-> {}, nodeCalls |-> 0]
IdleCommand ==
  [pc |-> "idle", chain |-> "ETH", tokens |-> <<>>, loaded |-> <<>>, contractAddress |-> "",
   tokenObj |-> [symbol |-> "", address |-> ""], asked |-> 0, ans |-> "none",
   added |-> <<>>, error |-> FALSE]
IdleBroadcast ==
  [pc |-> "idle", rawTxs |-> <<>>, txids |-> <<>>, sent |-> <<>>, probed |-> NoHandle,
   web3 |-> NoHandle, result |-> [single |-> FALSE, ids |-> <<>>], error |-> "",
   logged |-> 0]

(***************************************************************************)
(* The remote node, the configuration and the clock, as the environment.   *)
(***************************************************************************)
\* the connection of a handle of the map breaks
Kill(h) ==
  /\ \E net \in Networks : rpcs[net] = h
  /\ h \notin dead
  /\ dead' = dead \cup {h}
  /\ UNCHANGED <<rpcs, rpcsChain, nextHandle, constructOk, task, feeVars, cacheVars, issued, wal, apiVars>>

\* the endpoint configuration of a network becomes (un)usable
SetConstruct(net) ==
  /\ constructOk' = [constructOk EXCEPT ![net] = ~constructOk[net]]
  /\ UNCHANGED <<rpcs, rpcsChain, nextHandle, dead, task, feeVars, cacheVars, issued, wal, apiVars>>

\* a minute passes
Tick ==
  /\ now < MaxTime
  /\ now' = now + 1
  /\ UNCHANGED <<connVars, task, feeVars, cache, refresh, issued, wal, apiVars>>

\* the process right after start: no connection was made yet
NoConn ==
  /\ rpcs = [n \in Networks |-> NoHandle]
  /\ rpcsChain = FALSE
  /\ nextHandle = 1
  /\ dead = {}

NoFee ==
  /\ feeTxs = <<>>
  /\ feeOut = NoFeeOut

NoCache ==
  /\ cache = <<>>
  /\ refresh = <<>>
  /\ now = 0
  /\ issued = [probe |-> 0, rpc |-> 0, db |-> 0, cache |-> 0, addresses |-> 0]
  /\ wal = IdleWallet
  /\ xf = IdleTransform
  /\ txc = IdleQuery
  /\ uw = IdleUpdate
  /\ ws = IdleStream
  /\ bc = IdleBroadcast
  /\ cli = IdleCommand

(***************************************************************************)
(* Properties of getWeb3.                                                  *)
(***************************************************************************)
\* call t is resumed by its probe in this step and returns
ProbeReturns(t) == task[t].pc = "probe" /\ task'[t].pc = "done"

\* C1: a call whose probe failed returns a handle it constructed itself, which
\* is then the entry of the map, and the probed handle is no longer in the map;
\* a call whose probe succeeded while the map still holds the probed handle
\* returns that handle, constructs nothing and leaves the map as it is.
C1_ProbedHandle ==
  [][\A t \in Tasks :
       /\ ProbeReturns(t) /\ ~task'[t].probeOk =>
            /\ task'[t].web3 = nextHandle
            /\ nextHandle' = nextHandle + 1
            /\ task'[t].web3 # task[t].probed
            /\ rpcs'[task[t].net] = task'[t].web3
            /\ \A n \in Networks : rpcs'[n] # task[t].probed
       /\ ProbeReturns(t) /\ task'[t].probeOk /\ rpcs[task[t].net] = task[t].probed =>
            /\ task'[t].web3 = task[t].probed
            /\ nextHandle' = nextHandle
            /\ rpcs' = rpcs
       /\ task'[t].pc = "done" /\ ~task'[t].probeOk => task'[t].web3 # task'[t].probed
    ]_vars

\* a call has replaced the handle whose probe failed
C1_Witness ==
  \E t \in Tasks :
    /\ task[t].op = "getWeb3" /\ task[t].pc = "done"
    /\ ~task[t].probeOk
    /\ task[t].probed \in dead
    /\ task[t].web3 # task[t].probed
    /\ rpcs[task[t].net] = task[t].web3

\* call t runs its last synchronous part in this step
Advances(t) == task[t].pc \in {"idle", "probe"} /\ task'[t].pc \in {"done", "failed"}

\* what getWeb3 finds in the map when t reaches line 61 in this step
EntryAtCheck(t) ==
  IF task[t].pc = "idle" THEN HasEntry(Conn, task'[t].net)
  ELSE HasEntry(Conn, task[t].net) /\ task'[t].probeOk

\* C2: a call that reaches the construction while it fails ends with the
\* failure, after that one attempt, with no handle stored for the network and
\* none constructed; the next call that finds no entry attempts the construction
\* again.
C2_ConstructionFailure ==
  [][\A t \in Tasks :
       /\ Advances(t) /\ ~EntryAtCheck(t) /\ ~constructOk[task'[t].net] =>
            /\ task'[t].pc = "failed"
            /\ task'[t].attempts = 1
            /\ rpcs'[task'[t].net] = NoHandle
            /\ nextHandle' = nextHandle
       /\ Advances(t) /\ ~EntryAtCheck(t) => task'[t].attempts = 1
       /\ task'[t].attempts <= 1
       /\ task'[t].pc = "done" => task'[t].web3 # NoHandle
    ]_vars

\* a construction failed after a failed probe, and a later call constructed anew
C2_Witness ==
  \E t, u \in Tasks :
    /\ task[t].pc = "failed" /\ ~task[t].probeOk /\ task[t].attempts = 1
    /\ task[u].pc = "done" /\ task[u].net = task[t].net
    /\ task[u].attempts = 1 /\ task[u].web3 > task[t].probed

(***************************************************************************)
(* Properties of the cache-aside reads.                                    *)
(***************************************************************************)
Started == {t \in Tasks : task[t].pc # "idle"}

\* call t calls getGlobalOrRefresh in this step
Enters(t) == task[t].key = <<>> /\ task'[t].key # <<>>

\* the requests that producers have sent to the node and to the database
Requests == issued.rpc + issued.db

\* two calls ask for the same thing
SameRequest(t, u) ==
  /\ task[t].op = task[u].op
  /\ task[t].op = "getBalanceForAddress" =>
       /\ task[t].net = task[u].net
       /\ Lower(task[t].addr) = Lower(task[u].addr)
       /\ Lower(task[t].tok) = Lower(task[u].tok)
  /\ task[t].op = "getFee" =>
       /\ (task[t].net \in {"livenet", "mainnet"}) = (task[u].net \in {"livenet", "mainnet"})
       /\ TargetParam(task[t].target) = TargetParam(task[u].target)

\* the state part of C3
SingleFlight ==
  /\ \A t, u \in Started :
       task[t].key # <<>> /\ task[u].key # <<>> /\ SameRequest(t, u) => task[t].key = task[u].key
  /\ \A r \in 1..Len(refresh) :
       /\ Cardinality(Pending(refresh, refresh[r].key)) <= 1
       /\ Cardinality({t \in Tasks : task[t].rid = r /\ task[t].refresher}) = 1
  /\ Requests <= Len(refresh)
  /\ \A t \in Tasks : task[t].rid # 0 =>
       /\ refresh[task[t].rid].key = task[t].key
       /\ task[t].pc = "done" =>
            /\ refresh[task[t].rid].st = "ok"
            /\ task[t].result = refresh[task[t].rid].value
  /\ \A t, u \in Tasks :
       task[t].rid # 0 /\ task[t].rid = task[u].rid /\ task[t].pc = "done" /\ task[u].pc = "done"
         => task[t].result = task[u].result

\* C3: callers that ask for the same thing use the same key; a call that enters
\* getGlobalOrRefresh on a key without a live entry while a refresh of that key is
\* in flight joins it and invokes no producer, so that each refresh has one
\* producer invocation, and all callers of a refresh receive its value.
C3_SingleFlight ==
  [][/\ SingleFlight'
     /\ \A t \in Tasks :
          Enters(t) /\ ~Live(cache, task'[t].key, now) /\ Pending(refresh, task'[t].key) # {} =>
            /\ task'[t].pc = "wait"
            /\ task'[t].rid \in Pending(refresh, task'[t].key)
            /\ refresh' = refresh
            /\ Requests' = Requests /\ issued'.probe = issued.probe
    ]_vars

\* two callers that spell the account differently have shared one refresh, and
\* one producer invocation, and received its value
C3_Witness ==
  \E t, u \in Tasks :
    /\ task[t].pc = "done" /\ task[u].pc = "done"
    /\ task[t].addr = "0xAB" /\ task[u].addr = "0xab"
    /\ task[t].rid # 0 /\ task[t].rid = task[u].rid
    /\ task[t].refresher # task[u].refresher
    /\ task[t].result = task[u].result
    /\ Len(refresh) = 1 /\ Requests = 1

\* the producer of refresher t fails in this step
ProducerFails(t) ==
  task[t].pc \in {"rpc", "db", "pprobe"} /\ task'[t].pc = "failed"

\* C4: when the producer fails the refresher fails, the refresh is marked
\* failed and the cache is left as it was; a caller that waited on a failed
\* refresh never gets a value; the cache holds only values of refreshes that
\* succeeded; and a call that then finds no live entry and no refresh in flight
\* starts a refresh of its own and invokes the producer.
C4_FailedRefresh ==
  [][\A t \in Tasks :
       /\ ProducerFails(t) =>
            /\ cache' = cache
            /\ refresh'[task[t].rid].st = "failed"
       /\ ~task'[t].rpcOk => task'[t].pc = "failed" /\ (task[t].rpcOk => cache' = cache)
       /\ task'[t].rid # 0 /\ refresh'[task'[t].rid].st = "failed" =>
            task'[t].pc \in {"wait", "failed"}
       /\ \A k \in DOMAIN cache' : \E r \in 1..Len(refresh') :
            /\ refresh'[r].key = k /\ refresh'[r].st = "ok"
            /\ refresh'[r].value = cache'[k].value
       /\ Enters(t) /\ ~Live(cache, task'[t].key, now) /\ Pending(refresh, task'[t].key) = {} =>
            /\ task'[t].refresher
            /\ task'[t].pc \in {"rpc", "db", "pprobe"}
            /\ Len(refresh') = Len(refresh) + 1
            /\ refresh'[task'[t].rid].st = "pending"
            /\ Requests' + issued'.probe = Requests + issued.probe + 1
    ]_vars

\* a refresh failed, nothing was stored, and the next call on the key invoked
\* the producer again and got a value
C4_Witness ==
  \E t, u \in Tasks :
    /\ task[t].pc = "failed" /\ task[t].refresher /\ ~task[t].rpcOk
    /\ task[u].pc = "done" /\ task[u].refresher
    /\ task[u].key = task[t].key /\ task[u].rid > task[t].rid
    /\ cache[task[u].key].value = task[u].result

(***************************************************************************)
(* Properties of getWalletBalance.                                         *)
(***************************************************************************)
Fields == {"confirmed", "unconfirmed", "balance"}
ZeroBalance == [f \in Fields |-> Zero]

\* the sub-calls of the wallet call, by position in the address list
SubCall(i) == task[wal.calls[i]]

\* the integer sum of field f of the balances the first n sub-calls returned
RECURSIVE ExactSum(_, _)
ExactSum(f, n) ==
  IF n = 0 THEN Zero
  ELSE LET rest == ExactSum(f, n - 1) IN
       Wide(rest.hi + SubCall(n).result[f].hi, rest.lo + SubCall(n).result[f].lo)

\* getBalanceForAddress was called once for each address of the list, with
\* the network and the token of the wallet call, and by nobody else
OneCallPerAddress ==
  /\ Len(wal.calls) = Len(wal.addrs)
  /\ \A i, j \in 1..Len(wal.calls) : wal.calls[i] = wal.calls[j] => i = j
  /\ Started = {wal.calls[i] : i \in 1..Len(wal.calls)}
  /\ \A i \in 1..Len(wal.calls) :
       /\ SubCall(i).op = "getBalanceForAddress"
       /\ SubCall(i).net = wal.net
       /\ SubCall(i).addr = wal.addrs[i]
       /\ SubCall(i).tok = wal.tok

\* C8 as stated: one call per address and the result is the sum of the
\* balances of the calls in each field, zero for no addresses.
C8_AsStated ==
  wal.pc = "done" =>
    /\ OneCallPerAddress
    /\ \A f \in Fields : wal.result[f] = ExactSum(f, Len(wal.calls))

\* C8, amended: one call per address; the result is the sum of the balances
\* of the calls in each field as number arithmetic gives it: the integer sum
\* when that is below 2^53, and otherwise off by at most half the distance of
\* neighbouring doubles for each addition; zero for no addresses.  The result
\* depends on the balances only, in whatever order the calls completed.
C8_NumberSum ==
  wal.pc = "done" =>
    /\ OneCallPerAddress
    /\ Len(wal.addrs) = 0 => wal.result = ZeroBalance
    /\ \A f \in Fields :
         LET n == Len(wal.calls)
             exact == ExactSum(f, n) IN
         /\ wal.result[f].hi = exact.hi
         /\ exact.hi = 0 => wal.result[f] = exact
         /\ 2 * Abs(wal.result[f].lo - exact.lo) <= n * Ulp(exact.hi)

\* two addresses with different balances were summed, and the call of the
\* second address had completed a minute before the call of the first
C8_Witness ==
  /\ wal.pc = "done"
  /\ Len(wal.addrs) = 2
  /\ SubCall(1).result.balance = Wide(0, 1)
  /\ SubCall(2).result.balance = Wide(1, 0)
  /\ SubCall(1).refresher /\ SubCall(2).refresher
  /\ SubCall(1).key \in DOMAIN cache /\ SubCall(2).key \in DOMAIN cache
  /\ cache[SubCall(1).key].expiry > cache[SubCall(2).key].expiry
  /\ wal.result.balance = Wide(1, 0)

\* C9: the wallet call returns a balance only when every one of its calls
\* returned one; once a call has failed the wallet call does not return a
\* balance, and a wallet call that failed carries no sum.
C9_NoPartialSum ==
  /\ wal.pc = "done" => \A i \in 1..Len(wal.calls) : SubCall(i).pc = "done"
  /\ (\E i \in 1..Len(wal.calls) : SubCall(i).pc = "failed") => wal.pc \in {"all", "failed"}
  /\ wal.pc # "done" => wal.result = NoResult

\* the wallet call failed although one of its addresses had a balance
C9_Witness ==
  /\ wal.pc = "failed"
  /\ \E i, j \in 1..Len(wal.calls) :
       /\ SubCall(i).pc = "done" /\ SubCall(i).result.balance # Zero
       /\ SubCall(j).pc = "failed"

\* C10: a wallet call without _id has failed with nothing else done: the
\* store was not asked for addresses, no getBalanceForAddress call was made,
\* no probe, no RPC, no cache access and no connection.
C10_NoIdFailsFirst ==
  (wal.pc # "idle" /\ ~wal.hasId) =>
    /\ wal.pc = "failed"
    /\ wal.addrs = <<>> /\ wal.calls = <<>>
    /\ issued = [probe |-> 0, rpc |-> 0, db |-> 0, cache |-> 0, addresses |-> 0]
    /\ Started = {}
    /\ \A net \in Networks : rpcs[net] = NoHandle
    /\ cache = <<>> /\ refresh = <<>>

C10_Witness ==
  /\ wal.pc = "failed"
  /\ ~wal.hasId
  /\ wal.tok # NoToken

(***************************************************************************)
(* Properties of Erc20RelatedFilterTransform.                              *)
(***************************************************************************)
\* the positions of the effects of tx from j on whose contract is the token
RECURSIVE MatchesFrom(_, _)
MatchesFrom(tx, j) ==
  IF ~tx.hasEffects \/ j > Len(tx.effects) THEN <<>>
  ELSE (IF tx.effects[j].contractAddress = xf.token THEN <<j>> ELSE <<>>)
         \o MatchesFrom(tx, j + 1)

\* <<input, effect>> for the matching effects of the first n inputs, by
\* arrival and then by position
RECURSIVE Expected(_)
Expected(n) ==
  IF n = 0 THEN <<>>
  ELSE LET M == MatchesFrom(xf.arrived[n], 1) IN
       Expected(n - 1) \o [k \in 1..Len(M) |-> <<n, M[k]>>]

Pushed(k) == xf.heap[xf.out[k]]
PushedFor(k) == xf.arrived[Expected(Len(xf.inputs))[k][1]]
PushedEffect(k) == PushedFor(k).effects[Expected(Len(xf.inputs))[k][2]]

\* C11: the records pushed are, input by input in arrival order, one per
\* effect whose contractAddress is the token address, in the order of the
\* effects; done was called once for each input; what was pushed stays.
C11_OnePerMatchingEffect ==
  [][/\ xf'.dones = Len(xf'.inputs)
     /\ Len(xf'.inputs) = Len(xf.inputs) + 1 => xf'.dones = xf.dones + 1
     /\ SubSeq(xf'.out, 1, Len(xf.out)) = xf.out
     /\ LET E == Expected(Len(xf.inputs))' IN
        /\ Len(xf'.out) = Len(E)
        /\ \A k \in 1..Len(E) :
             /\ Pushed(k)'.txid = PushedFor(k)'.txid
             /\ Pushed(k)'.to = PushedEffect(k)'.to
             /\ Pushed(k)'.from = PushedEffect(k)'.from
    ]_vars

\* a record with two matching effects around one of another token gave two
\* records, and records without a matching effect gave none
C11_Witness ==
  /\ Len(xf.inputs) = 3
  /\ xf.dones = 3
  /\ \E i, j, n \in 1..3 :
       /\ Len(xf.arrived[i].effects) = 3 /\ Len(MatchesFrom(xf.arrived[i], 1)) = 2
       /\ ~xf.arrived[j].hasEffects
       /\ HasEffects(xf.arrived[n]) /\ MatchesFrom(xf.arrived[n], 1) = <<>>
  /\ Len(xf.out) = 2
  /\ Pushed(1).from = "0xA" /\ Pushed(2).from = "0xC"

\* what a pushed record has apart from value
CopyOfInput(k) ==
  /\ Pushed(k).txid = PushedFor(k).txid
  /\ Pushed(k).hasEffects = PushedFor(k).hasEffects
  /\ Pushed(k).effects = PushedFor(k).effects
  /\ Pushed(k).to = PushedEffect(k).to
  /\ Pushed(k).from = PushedEffect(k).from
  /\ Pushed(k).initialFrom =
       IF PushedEffect(k).from # PushedFor(k).from THEN PushedFor(k).from ELSE Absent

\* the records written are as they arrived, and every pushed record is an
\* object of its own
NothingModified ==
  /\ \A i \in 1..Len(xf.inputs) : xf.heap[xf.inputs[i]] = xf.arrived[i]
  /\ \A k \in 1..Len(xf.out) : \A i \in 1..Len(xf.inputs) : xf.out[k] # xf.inputs[i]
  /\ \A k, l \in 1..Len(xf.out) : xf.out[k] = xf.out[l] => k = l

\* C12 as stated: value is the amount of the effect.
C12_AsStated ==
  /\ NothingModified
  /\ Len(xf.out) = Len(Expected(Len(xf.inputs)))
  /\ \A k \in 1..Len(xf.out) : CopyOfInput(k) /\ Pushed(k).value = PushedEffect(k).amount

\* C12, amended: value is Number(amount): the amount when that is below 2^53,
\* and otherwise the double nearest to it; the rest as stated.
C12_CopyPerEffect ==
  /\ NothingModified
  /\ Len(xf.out) = Len(Expected(Len(xf.inputs)))
  /\ \A k \in 1..Len(xf.out) :
       /\ CopyOfInput(k)
       /\ Pushed(k).value.hi = PushedEffect(k).amount.hi
       /\ PushedEffect(k).amount.hi = 0 => Pushed(k).value = PushedEffect(k).amount
       /\ 2 * Abs(Pushed(k).value.lo - PushedEffect(k).amount.lo) <= Ulp(PushedEffect(k).amount.hi)

\* one input gave a record without initialFrom and then one with it
C12_Witness ==
  \E k, l \in 1..Len(xf.out) :
    /\ k < l
    /\ Pushed(k).txid = Pushed(l).txid
    /\ Pushed(k).initialFrom = Absent /\ Pushed(k).value = Wide(0, 100)
    /\ Pushed(l).initialFrom = "0xA" /\ Pushed(l).from = "0xC"
    /\ xf.heap[xf.inputs[Pushed(k).txid]].value = Wide(0, 7)

(***************************************************************************)
(* Properties of getTransaction and streamTransactions.                    *)
(***************************************************************************)
\* C13: both calls have reported confirmations for the record, under the
\* same tip: they are equal, tipHeight - blockHeight + 1 for a blockHeight
\* >= 0 and 0 for an undefined or negative one.
C13_SameConfirmations ==
  \A op \in {"getTransaction", "streamTransactions"} :
    txc.reported[op].seen =>
      txc.reported[op].confirmations =
        IF txc.blockHeight # NoHeight /\ txc.blockHeight >= 0
        THEN TipHeight(txc.tip) - txc.blockHeight + 1
        ELSE 0

\* C17: a getTransaction call that found no record resolves to undefined
\* without an error having been thrown, and has asked the node for nothing
\* and written nothing.
C17_NotFoundIsUndefined ==
  [](txc.pc = "done" /\ txc.op = "getTransaction" /\ txc.valid /\ ~txc.indexed =>
         /\ txc.outcome = "undefined"
         /\ txc.nodeCalls = 0
         /\ txc.writes = 0
         /\ txc.web3 = NoHandle /\ txc.probed = NoHandle)
  /\ [][txc.pc = "find" /\ ~txc.indexed /\ txc'.pc # "find" /\ ~txc'.logged =>
          /\ txc'.pc = "done" /\ txc'.outcome = "undefined"
          /\ txc'.nodeCalls = 0 /\ txc'.writes = 0
          /\ rpcs' = rpcs]_vars

C17_Witness ==
  /\ txc.pc = "done" /\ txc.op = "getTransaction" /\ txc.valid /\ ~txc.indexed
  /\ txc.queries = 2 /\ ~txc.logged
  /\ txc.outcome = "undefined"

\* C18: a call with a missing or malformed required parameter has ended with
\* an error for the caller, without a store query and without a node call.
C18_ValidationSurfaces ==
  txc.pc = "done" /\ ~txc.valid =>
    /\ txc.outcome = "error"
    /\ txc.queries = 0
    /\ txc.nodeCalls = 0

(***************************************************************************)
(* getBalanceForAddress on a key that has a live entry.                    *)
(***************************************************************************)
\* the key of what call t asks for
KeyOf(t) == <<"getBalanceForAddress", task[t].net, Lower(task[t].addr), Lower(task[t].tok)>>

\* there is an entry for what call t asks for, and it has not expired
Fresh(t) == KeyOf(t) \in DOMAIN cache /\ now < cache[KeyOf(t)].expiry

\* call t has returned what it found in the cache
Hit(t) ==
  /\ task[t].op = "getBalanceForAddress" /\ task[t].pc = "done"
  /\ task[t].rid = 0 /\ ~task[t].refresher

\* C23 as stated: a call that returned the cached balance has issued no call
\* to the node.
C23_AsStated == \A t \in Tasks : Hit(t) => task[t].probed = NoHandle

\* C23: a call that comes to getGlobalOrRefresh while the entry of its key is
\* live returns the value of the entry in that step, with no balance request
\* and no probe issued and cache, refreshes and handles left as they are;
\* before that the call has acquired the connection: it probes the handle of
\* the map if there is one, and after a failed probe it goes on with a new
\* handle, failing only if the construction fails.
C23_CachedBalance ==
  [][\A t \in Tasks :
       /\ task[t].op = "getBalanceForAddress" /\ task[t].pc = "w3ret"
            /\ task'[t].pc # "w3ret" /\ Fresh(t) =>
              /\ task'[t].pc = "done"
              /\ task'[t].result = cache[KeyOf(t)].value
              /\ issued'.rpc = issued.rpc /\ issued'.probe = issued.probe
              /\ cache' = cache /\ refresh' = refresh
              /\ rpcs' = rpcs /\ nextHandle' = nextHandle
       /\ task[t].op = "getBalanceForAddress" /\ task[t].pc = "probe" /\ task'[t].pc # "probe" =>
              /\ task'[t].pc \in {"w3ret", "failed"}
              /\ task'[t].pc = "failed" <=> (~task'[t].probeOk /\ ~constructOk[task[t].net])
       /\ task[t].pc = "idle" /\ task'[t].op = "getBalanceForAddress" /\ task'[t].pc # "idle"
            /\ HasEntry(Conn, task'[t].net) =>
              /\ task'[t].pc = "probe"
              /\ task'[t].probed = rpcs[task'[t].net]
              /\ issued'.probe = issued.probe + 1
    ]_vars

\* the node is unreachable: the probe of the call failed, the call made a new
\* handle and returned the cached balance, asked for under another spelling
C23_Witness ==
  \E t \in Tasks :
    /\ Hit(t) /\ Fresh(t)
    /\ task[t].addr = "0xAB"
    /\ ~task[t].probeOk /\ task[t].probed \in dead
    /\ task[t].web3 # task[t].probed
    /\ task[t].result = cache[KeyOf(t)].value
    /\ issued.rpc = 0 /\ issued.probe = 1

(***************************************************************************)
(* Properties of populateReceipt, as getTransaction calls it on the record *)
(* it found.                                                               *)
(***************************************************************************)
\* populateReceipt is at work on the record of the call
Populating == txc.op = "getTransaction" /\ txc.indexed /\ txc.pc \in {"probe", "receipt", "write"}

\* C21 as stated: the fee set on a record that got its receipt in this call is
\* the product of gasUsed and gasPrice.
C21_AsStated ==
  txc.op = "getTransaction" /\ txc.fetches = 1 /\ txc.found.gasUsed # NoReceipt =>
    txc.found.fee = Wide(txc.found.gasUsed * txc.gasPrice.hi,
                         txc.found.gasUsed * txc.gasPrice.lo)

\* C21: for a record that has a receipt nothing is asked of the node and
\* nothing is written; for a record without one the receipt is fetched once
\* at most, and once when the connection is there; receipt and fee are set on
\* the record in the step in which the write of the same two fields has
\* completed, and the fee is the number gasUsed * gasPrice, the double nearest
\* to the product; when the node has no receipt, record and store stay as they
\* are and the record is returned.
C21_PopulateReceipt ==
  /\ [](txc.op = "getTransaction" /\ txc.indexed /\ txc.pc \notin {"idle", "tip", "find"} =>
          /\ txc.fetches <= 1 /\ txc.writes <= 1
          /\ txc.pc \in {"receipt", "write"} => txc.fetches = 1
          /\ txc.before.gasUsed # NoReceipt =>
               /\ txc.fetches = 0 /\ txc.nodeCalls = 0 /\ txc.writes = 0
               /\ txc.stored = txc.before
               /\ txc.pc = "done" /\ ~txc.logged =>
                    txc.found = txc.before /\ txc.outcome = "value")
  /\ [][Populating =>
          /\ txc.pc # "write" => txc'.found = txc.found /\ txc'.stored = txc.stored
          /\ txc.pc = "write" /\ txc'.logged => txc'.found = txc.found /\ txc'.stored = txc.stored
          /\ txc.pc = "write" /\ ~txc'.logged =>
               /\ txc'.found.gasUsed # NoReceipt
               /\ txc'.found.fee = Times(txc'.found.gasUsed, txc.gasPrice)
               /\ txc'.stored = txc'.found
               /\ txc'.outcome = "value"
          /\ txc.pc = "receipt" /\ txc'.pc = "done" /\ ~txc'.logged =>
               /\ txc'.writes = 0
               /\ txc'.found.gasUsed = NoReceipt
               /\ txc'.outcome = "value"
     ]_vars

\* a record without receipt got the receipt the node had: the product of
\* gasUsed 3 and gasPrice 2^53 + 2 is 3 * 2^53 + 6, the fee is 3 * 2^53 + 8
C21_Witness ==
  /\ txc.pc = "done" /\ txc.op = "getTransaction" /\ txc.outcome = "value"
  /\ txc.before.gasUsed = NoReceipt
  /\ txc.fetches = 1 /\ txc.writes = 1
  /\ txc.gasPrice = Wide(1, 2)
  /\ txc.found = ReceiptFields(3, Wide(3, 8))
  /\ txc.stored = txc.found

(***************************************************************************)
(* Properties of updateWallet.                                             *)
(***************************************************************************)
Count(seq, x) == Cardinality({i \in 1..Len(seq) : seq[i] = x})

\* C14: a duplicate key error never fails the call and any other write error
\* does; the wallet id is at most once in the wallets of a transaction, and
\* the other wallets stay; a call that completes right after a completed call
\* with the same addresses leaves both collections as it found them.
C14_Idempotent ==
  [][/\ \A i \in 1..Len(uw'.txs) :
          /\ Count(uw'.txs[i].wallets, WalletId) <= 1
          /\ Count(uw'.txs[i].wallets, "W2") = Count(uw.txs[i].wallets, "W2")
     /\ \A a \in Range(uw'.addrs) :
          Cardinality({i \in 1..Len(uw'.wa) : uw'.wa[i].address = a}) <= 1
     /\ uw.pc \in {"insert", "tag", "mark"} =>
          (uw'.pc = "failed" <=> (uw'.lastCode # NoError /\ uw'.lastCode # DuplicateKey))
     /\ uw'.pc = "done" /\ uw'.rerun =>
          /\ uw'.wa = uw'.before.wa
          /\ uw'.txs = uw'.before.txs
    ]_vars

\* the second of two calls with three addresses has completed with its
\* duplicate key errors let pass, and a transaction of two wallets is tagged
C14_Witness ==
  /\ uw.pc = "done" /\ uw.rerun
  /\ Len(uw.addrs) = 3
  /\ uw.suppressed = 2
  /\ uw.txs[2].wallets = <<"W2", WalletId>>
  /\ uw.wa = uw.before.wa /\ uw.wa # <<>>

ProcessedIn(wa, a) == \E i \in 1..Len(wa) : wa[i].address = a /\ wa[i].processed

\* the requests of a call in the order the code makes them
StageAt(i) ==
  <<CASE (i - 1) % 3 = 0 -> "insert" [] (i - 1) % 3 = 1 -> "tag" [] OTHER -> "mark",
    ((i - 1) \div 3) + 1>>

\* the addresses of batch b that are in no earlier batch
FirstIn(b) ==
  {a \in Range(uw.batches[b]) : \A c \in 1..(b - 1) : a \notin Range(uw.batches[c])}

\* C19 as stated: after a failure in batch b no address of b or of a later
\* batch has been marked processed by the call, also an address that is in
\* an earlier batch of the same call as well.
C19_AsStated ==
  uw.pc = "failed" =>
    \A b \in (uw.batch)..Len(uw.batches) : \A a \in Range(uw.batches[b]) :
      ProcessedIn(uw.wa, a) = ProcessedIn(uw.before.wa, a)

\* C19: the writes go out batch by batch in input order, registration, then
\* tagging, then marking, each after the one before has completed; an address
\* becomes processed only in the step that completes the marking of its
\* batch, when the transactions of the batch carry the wallet id; after a
\* failure in batch b the addresses of b and of later batches that are in no
\* earlier batch are as processed as they were before the call.
C19_ProcessedAfterTagging ==
  [][/\ \A i \in 1..Len(uw'.log) : uw'.log[i] = StageAt(i)
     /\ \A a \in {"0xAB", "0xcd", "0xEF"} :
          ~ProcessedIn(uw.wa, a) /\ ProcessedIn(uw'.wa, a) =>
            /\ uw.pc = "mark"
            /\ a \in Range(uw.batches[uw.batch])
            /\ \E i \in 1..Len(uw.log) : uw.log[i] = <<"tag", uw.batch>>
            /\ \A i \in 1..Len(uw.txs) :
                 Tagged(uw.txs[i], uw.batches[uw.batch]) => WalletId \in Range(uw.txs[i].wallets)
     /\ uw'.pc = "failed" =>
          \A b \in (uw'.batch)..Len(uw'.batches) : \A a \in FirstIn(b)' :
            ProcessedIn(uw'.wa, a) = ProcessedIn(uw'.before.wa, a)
    ]_vars

\* the tagging of the second batch failed: the addresses of the first batch
\* are processed, the address of the second is registered and not processed
C19_Witness ==
  /\ uw.pc = "failed"
  /\ uw.batch = 2 /\ uw.log[Len(uw.log)] = <<"tag", 2>>
  /\ ~uw.rerun /\ uw.before.wa = <<>>
  /\ \A a \in Range(uw.batches[1]) : ProcessedIn(uw.wa, a)
  /\ \E a \in FirstIn(2) : Registered(uw.wa, a) /\ ~ProcessedIn(uw.wa, a)

(***************************************************************************)
(* Properties of streamWalletTransactions.                                 *)
(***************************************************************************)
Kind(stage) == IF stage \in {"erc20", "internal"} THEN "filter" ELSE stage

FixedOrder == <<"filter", "receipt", "effects", "shape">>

Filters == {i \in 1..Len(ws.stages) : Kind(ws.stages[i]) = "filter"}

\* C15: a record waiting for a stage, or received by the response, has passed
\* the stages before it in the order filter, receipt population, effects
\* back-fill, final shaping; there is at most one filter, for a wallet with an
\* id exactly one, the token filter if and only if a token address is given;
\* no population stage has run on a record that a filter dropped.
C15_StageOrder ==
  ws.pc = "flow" =>
    /\ Cardinality(Filters) <= 1
    /\ ws.hasId => Cardinality(Filters) = 1
    /\ ("erc20" \in Range(ws.stages)) <=> (ws.tokenAddress # "")
    /\ ws.hasId => (("internal" \in Range(ws.stages)) <=> (ws.tokenAddress = ""))
    /\ \A i \in 1..Len(ws.q) : \A k \in 1..Len(ws.q[i]) :
         LET p == ws.q[i][k].passed
             order == IF Filters # {} THEN FixedOrder ELSE Tail(FixedOrder) IN
         /\ Len(p) = i - 1
         /\ [j \in 1..Len(p) |-> Kind(p[j])] = SubSeq(order, 1, i - 1)
    /\ ws.dropped \cap (ws.receiptRan \cup ws.effectsRan) = {}

\* the token filter has dropped the first record and the response has received
\* a copy of the second, which got its receipt from the node
C15_Witness ==
  /\ ws.pc = "flow" /\ ws.hasId /\ ws.token = "0xTK"
  /\ ws.dropped = {1}
  /\ ws.q[Len(ws.q)] # <<>>
  /\ ws.q[Len(ws.q)][1].src = 2
  /\ ws.q[Len(ws.q)][1].passed = <<"erc20", "receipt", "effects", "shape">>
  /\ ws.nodeCalls = 1

\* the effects of tx were never decoded, and decoded they hold a transfer of
\* the token
BackFillable(tx, token) ==
  /\ ~tx.hasEffects \/ Len(tx.effects) = 0
  /\ \E k \in 1..Len(GetEffects(tx)) : GetEffects(tx)[k].contractAddress = token

\* C22: in a stream with a token filter no record has been dropped whose
\* effects were empty and decode to a transfer of the token.
C22_BackFilledBeforeFilter ==
  ws.pc = "flow" /\ "erc20" \in Range(ws.stages) =>
    \A tx \in ws.lost : ~BackFillable(tx, ws.token)

(***************************************************************************)
(* Properties of broadcastTransaction.                                     *)
(***************************************************************************)
\* C16: the k-th submission is that of the k-th transaction given, a
\* submission is made only when the hashes of all transactions before it are
\* in; a rejected submission is the last one, and the call fails with the
\* error of the node; a call that succeeds has submitted everything and
\* returns the one id if one transaction was given, else the ids in the
\* order given.
C16_InOrder ==
  /\ \A k \in 1..Len(bc.sent) : bc.sent[k] = [index |-> k, tx |-> bc.rawTxs[k]]
  /\ Len(bc.sent) <= Len(bc.rawTxs)
  /\ Len(bc.sent) \in {Len(bc.txids), Len(bc.txids) + 1}
  /\ \A k \in 1..Len(bc.txids) : bc.txids[k] = Hash(bc.rawTxs[k])
  /\ bc.pc = "send" => Len(bc.sent) = Len(bc.txids) + 1
  /\ bc.pc = "failed" /\ bc.sent # <<>> =>
       /\ Len(bc.sent) = Len(bc.txids) + 1
       /\ bc.error = Rejection(bc.rawTxs[Len(bc.sent)])
  /\ bc.pc = "done" =>
       /\ Len(bc.sent) = Len(bc.rawTxs)
       /\ bc.result.single <=> (Len(bc.rawTxs) = 1)
       /\ bc.result.ids = [k \in 1..Len(bc.rawTxs) |-> Hash(bc.rawTxs[k])]

\* the first of three transactions went through, the node rejected the
\* second, and the third was not submitted
C16_Witness ==
  /\ bc.pc = "failed"
  /\ bc.rawTxs = <<"raw2", "raw1", "raw2">>
  /\ bc.txids = <<"hash2">>
  /\ Len(bc.sent) = 2 /\ bc.error = "err1"

(***************************************************************************)
(* Concurrent getWeb3 calls on a dead handle.                              *)
(***************************************************************************)
\* the getWeb3 calls for network n that have begun
CallsOn(n) == {t \in Tasks : task[t].pc # "idle" /\ task[t].op = "getWeb3" /\ task[t].net = n}

\* call t is resumed by the failure of its probe in this step
ProbeFails(t) == task[t].pc = "probe" /\ task'[t].pc # "probe" /\ ~task'[t].probeOk

\* C20: a call resumed by the failure of its probe constructs exactly one
\* handle, after the probe, and where the construction succeeds returns it:
\* not the handle it probed, not a handle that was there before, not an absent
\* entry, and the map then holds that handle; once every call for a network
\* has returned, the map holds for the network the handle that was
\* constructed last; every call that waits for its probe comes to its end.
C20_ConcurrentReconnect ==
  /\ [][\A t \in Tasks :
          ProbeFails(t) =>
            /\ task'[t].attempts = 1
            /\ constructOk[task[t].net] =>
                 /\ task'[t].pc = "done"
                 /\ task'[t].web3 = nextHandle /\ nextHandle' = nextHandle + 1
                 /\ task'[t].web3 \notin {NoHandle, task[t].probed}
                 /\ \A u \in Tasks \ {t} : task[u].pc = "done" => task[u].web3 # task'[t].web3
                 /\ rpcs'[task[t].net] = task'[t].web3
      ]_vars
  /\ [](\A n \in Networks :
          CallsOn(n) # {} /\ (\A t \in CallsOn(n) : task[t].pc = "done") =>
            /\ rpcs[n] \in {task[t].web3 : t \in CallsOn(n)}
            /\ \A t \in CallsOn(n) : task[t].web3 <= rpcs[n])
  /\ \A t \in Tasks : (task[t].pc = "probe") ~> (task[t].pc \in {"done", "failed"})

\* two calls probed the same handle; both probes failed, each call made a
\* handle of its own, and the map holds the one made last
C20_Witness ==
  \E t, u \in Tasks :
    /\ t # u /\ task[t].net = task[u].net
    /\ task[t].pc = "done" /\ task[u].pc = "done"
    /\ task[t].probed = task[u].probed /\ task[t].probed \in dead
    /\ ~task[t].probeOk /\ ~task[u].probeOk
    /\ task[t].web3 < task[u].web3
    /\ rpcs[task[t].net] = task[u].web3

(***************************************************************************)
(* Properties of the token-add command.                                    *)
(***************************************************************************)
\* addToken is called in this step
AddTokenCalled == Len(cli'.added) = Len(cli.added) + 1

\* the symbols of tokens, as often as they are there
SymbolCount(tokens, symbol) == Cardinality({i \in 1..Len(tokens) : tokens[i].symbol = symbol})

\* C24: addToken is called only for a wallet of chain ETH or MATIC, and only
\* when no token of the wallet has the symbol of the fetched token or the user
\* has just confirmed; on a confirmation the tokens of that symbol, all of
\* them and no others, are out of wallet.tokens when addToken is called; when
\* the user declines, wallet.tokens stays and addToken is not called.
C24_AddTokenGuard ==
  [][/\ AddTokenCalled =>
          LET call == cli'.added[Len(cli'.added)]
              symbol == call.token.symbol IN
          /\ cli.chain \in {"ETH", "MATIC"}
          /\ \/ cli.pc = "getToken" /\ SymbolCount(cli.tokens, symbol) = 0
             \/ cli.pc = "confirm" /\ cli'.ans = "yes"
          /\ SymbolCount(call.tokens, symbol) = 0
          /\ call.tokens = cli'.tokens
          /\ \A i \in 1..Len(cli.loaded) :
               cli.loaded[i].symbol # symbol =>
                 \E j \in 1..Len(call.tokens) : call.tokens[j] = cli.loaded[i]
          /\ Len(call.tokens) = Len(cli.loaded) - SymbolCount(cli.loaded, symbol)
     /\ cli.pc = "confirm" /\ cli'.ans = "no" =>
          /\ cli'.tokens = cli.tokens /\ cli'.tokens = cli.loaded
          /\ cli'.added = <<>>
          /\ cli'.pc = "done"
     /\ Len(cli'.added) <= 1
     /\ cli'.pc \in {"load", "getToken", "confirm"} => cli'.tokens = cli'.loaded
    ]_vars

\* the wallet held two tokens of the symbol fetched and one other; the user
\* confirmed, and addToken found the other alone
C24_Witness ==
  /\ cli.pc = "add" /\ cli.ans = "yes"
  /\ Len(cli.loaded) = 3 /\ SymbolCount(cli.loaded, "USDC") = 2
  /\ cli.tokenObj.symbol = "USDC"
  /\ Len(cli.added) = 1
  /\ cli.added[1].tokens = <<[symbol |-> "DAI", address |-> "0xD1"]>>

InitConn ==
  /\ NoConn
  /\ constructOk \in [Networks -> BOOLEAN]
  /\ task = [t \in Tasks |-> IdleTask]
  /\ NoFee
  /\ NoCache

NextConn ==
  \/ \E t \in Tasks, net \in Networks : GetWeb3(t, net)
  \/ \E t \in Tasks : ProbeDone(t)
  \/ \E h \in Handles : Kill(h)
  \/ \E net \in Networks : SetConstruct(net)

SpecConn == InitConn /\ [][NextConn]_vars

\* the probe of a waiting call settles
SpecConnLive == SpecConn /\ \A t \in Tasks : WF_vars(ProbeDone(t))

InitFee ==
  /\ NoConn
  /\ constructOk = [n \in Networks |-> TRUE]
  /\ task = [t \in Tasks |-> IdleTask]
  /\ NoFee
  /\ NoCache

NextFee ==
  \/ \E g \in GasPrices : IndexTx(g)
  \/ \E target \in Targets, up \in BOOLEAN : GetFeeCompute(target, up)
  \/ FeeReturn

SpecFee == InitFee /\ [][NextFee]_vars

(***************************************************************************)
(* The cache-aside reads: concurrent getBalanceForAddress and getFee calls *)
(* of one network.                                                         *)
(***************************************************************************)
CacheTasks == 1..MaxCacheCalls
FeeSamples == <<1006000000, 1004000000, 1004000000, 1004000000>>

\* the arguments of the calls: two spellings of one account, with and without
\* a token; two spellings of one network with the default target given or not
BalanceArgs == {<<"0xAB", NoToken>>, <<"0xab", NoToken>>, <<"0xab", "0xTK">>}
FeeArgs == {<<"livenet", Undefined>>, <<"mainnet", 4>>}

InitCache ==
  /\ NoConn
  /\ constructOk = [n \in Networks |-> TRUE]
  /\ task = [t \in Tasks |-> IdleTask]
  /\ feeTxs = FeeSamples
  /\ feeOut = NoFeeOut
  /\ NoCache

NextCache ==
  \/ \E t \in CacheTasks, a \in BalanceArgs : GetBalanceForAddress(t, "mainnet", a[1], a[2])
  \/ \E t \in CacheTasks, a \in FeeArgs : GetFee(t, a[1], a[2])
  \/ \E t \in Tasks : ProbeDone(t)
  \/ \E t \in Tasks : BalanceLookup(t)
  \/ \E t \in Tasks : ProducerProbeDone(t)
  \/ \E t \in Tasks, ok \in BOOLEAN, v \in Balances : RpcDone(t, ok, v)
  \/ \E t \in Tasks, ok \in BOOLEAN : DbDone(t, ok, FALSE)
  \/ \E t \in Tasks : WaitDone(t)
  \/ Tick

SpecCache == InitCache /\ [][NextCache]_vars

(***************************************************************************)
(* One getWalletBalance call.                                              *)
(***************************************************************************)
WalletAddresses == {"0xab", "0xcd"}
WalletBalances == {Wide(0, 1), Wide(1, 0)}

\* the lists of at most n addresses
RECURSIVE AddressLists(_)
AddressLists(n) ==
  IF n = 0 THEN {<<>>}
  ELSE AddressLists(n - 1) \cup
       {Append(l, a) : l \in {k \in AddressLists(n - 1) : Len(k) = n - 1}, a \in WalletAddresses}

InitWallet ==
  /\ NoConn
  /\ constructOk \in [Networks -> BOOLEAN]
  /\ task = [t \in Tasks |-> IdleTask]
  /\ NoFee
  /\ NoCache

NextWallet ==
  \/ \E hasId \in BOOLEAN, tok \in Tokens : GetWalletBalance(hasId, "mainnet", tok)
  \/ \E ok \in BOOLEAN, addrs \in AddressLists(MaxAddrs) : AddressesDone(ok, addrs)
  \/ \E t \in Tasks : ProbeDone(t)
  \/ \E t \in Tasks : BalanceLookup(t)
  \/ \E t \in Tasks : ProducerProbeDone(t)
  \/ \E t \in Tasks, ok \in BOOLEAN, v \in WalletBalances : RpcDone(t, ok, v)
  \/ \E t \in Tasks : WaitDone(t)
  \/ WalletSettle
  \/ Tick

SpecWallet == InitWallet /\ [][NextWallet]_vars

(***************************************************************************)
(* Records written to one Erc20RelatedFilterTransform.                     *)
(***************************************************************************)
TransferTK == [contractAddress |-> "0xTK", from |-> "0xA", to |-> "0xB", amount |-> Wide(0, 100)]
TransferT2 == [contractAddress |-> "0xT2", from |-> "0xA", to |-> "0xB", amount |-> Wide(0, 5)]
TransferByC == [contractAddress |-> "0xTK", from |-> "0xC", to |-> "0xD", amount |-> Wide(1, 1)]
TransferLower == [contractAddress |-> "0xtk", from |-> "0xA", to |-> "0xB", amount |-> Wide(0, 100)]

StoredTx(from, hasEffects, effects) ==
  [txid |-> 0, from |-> from, to |-> "0xTK", value |-> Wide(0, 7),
   hasEffects |-> hasEffects, effects |-> effects, initialFrom |-> Absent]

\* the records of the stream: without effects, with none, with effects of the
\* token and of others
StreamRecords ==
  {StoredTx("0xA", FALSE, <<>>),
   StoredTx("0xA", TRUE, <<>>),
   StoredTx("0xA", TRUE, <<TransferT2>>),
   StoredTx("0xA", TRUE, <<TransferLower>>),
   StoredTx("0xA", TRUE, <<TransferTK, TransferT2, TransferByC>>),
   StoredTx("0xC", TRUE, <<TransferByC, TransferTK>>)}

InitErc20 ==
  /\ NoConn
  /\ constructOk = [n \in Networks |-> TRUE]
  /\ task = [t \in Tasks |-> IdleTask]
  /\ NoFee
  /\ cache = <<>> /\ refresh = <<>> /\ now = 0
  /\ issued = [probe |-> 0, rpc |-> 0, db |-> 0, cache |-> 0, addresses |-> 0]
  /\ wal = IdleWallet
  /\ xf \in {[IdleTransform EXCEPT !.token = t] : t \in {"0xTK", "0xT2"}}
  /\ txc = IdleQuery
  /\ uw = IdleUpdate
  /\ ws = IdleStream
  /\ bc = IdleBroadcast
  /\ cli = IdleCommand

NextErc20 == \E tx \in StreamRecords : Write(tx)

SpecErc20 == InitErc20 /\ [][NextErc20]_vars

(***************************************************************************)
(* getTransaction and streamTransactions calls, one after the other, on a  *)
(* store that holds a tip or none and the record asked for or not.         *)
(***************************************************************************)
TipHeights == {NoHeight, 100}
BlockHeights == {NoHeight, -3, -1, 0, 95, 100}

\* tx.gasPrice in wei, and the gasUsed of the receipt the node has, if any
GasPricesWei == {Wide(0, 20), Wide(1, 2)}
GasUsed == {NoReceipt, 3}

InitTx ==
  /\ \E h \in {NoHandle, 1} :
       /\ rpcs = [n \in Networks |-> IF n = "mainnet" THEN h ELSE NoHandle]
       /\ rpcsChain = (h # NoHandle)
       /\ nextHandle = IF h = NoHandle THEN 1 ELSE 2
       /\ dead \in SUBSET ({h} \ {NoHandle})
  /\ constructOk = [n \in Networks |-> TRUE]
  /\ task = [t \in Tasks |-> IdleTask]
  /\ NoFee
  /\ cache = <<>> /\ refresh = <<>> /\ now = 0
  /\ issued = [probe |-> 0, rpc |-> 0, db |-> 0, cache |-> 0, addresses |-> 0]
  /\ wal = IdleWallet
  /\ xf = IdleTransform
  /\ \E tip \in TipHeights, indexed \in BOOLEAN, h \in BlockHeights, r \in BOOLEAN,
        p \in GasPricesWei :
       /\ ~indexed => h = NoHeight /\ ~r /\ p = Wide(0, 20)
       /\ txc = [IdleQuery EXCEPT !.tip = tip, !.indexed = indexed, !.blockHeight = h,
                                  !.hasReceipt = r, !.gasPrice = p,
                                  !.stored = IF r THEN ReceiptFields(2, FeeOfReceipt(2, p))
                                             ELSE ReceiptFields(NoReceipt, NoNumber)]
  /\ uw = IdleUpdate
  /\ ws = IdleStream
  /\ bc = IdleBroadcast
  /\ cli = IdleCommand

NextTx ==
  \/ \E s, c, n \in BOOLEAN : GetTransaction(s, c, n)
  \/ \E c, n \in BOOLEAN : StreamTransactions(c, n)
  \/ \E ok \in BOOLEAN : TxTipDone(ok)
  \/ \E ok \in BOOLEAN : TxFindDone(ok)
  \/ TxProbeDone
  \/ \E ok \in BOOLEAN, g \in GasUsed : TxReceiptDone(ok, g)
  \/ \E ok \in BOOLEAN : TxWriteDone(ok)
  \/ TxStreamRecord
  \/ TxReturn

SpecTx == InitTx /\ [][NextTx]_vars

(***************************************************************************)
(* updateWallet calls, one after the other.                                *)
(***************************************************************************)
IndexedTx(from, to, effectsFrom, effectsTo, wallets) ==
  [from |-> from, to |-> to, effectsFrom |-> effectsFrom, effectsTo |-> effectsTo,
   wallets |-> wallets]

IndexedTxs ==
  <<IndexedTx("0xAB", "0x11", "", "", <<>>),
    IndexedTx("0x22", "0x33", "0x22", "0xef", <<"W2">>),
    IndexedTx("0x22", "0xcd", "0xab", "0xcd", <<>>),
    IndexedTx("0x44", "0x55", "", "", <<"W2">>)>>

AddressInputs ==
  {<<>>, <<"0xAB">>, <<"0xcd", "0xAB">>, <<"0xAB", "0xcd", "0xEF">>,
   <<"0xAB", "0xcd", "0xEF", "0xAB">>}

InitUpdate ==
  /\ NoConn
  /\ constructOk = [n \in Networks |-> TRUE]
  /\ task = [t \in Tasks |-> IdleTask]
  /\ NoFee
  /\ cache = <<>> /\ refresh = <<>> /\ now = 0
  /\ issued = [probe |-> 0, rpc |-> 0, db |-> 0, cache |-> 0, addresses |-> 0]
  /\ wal = IdleWallet
  /\ xf = IdleTransform
  /\ txc = IdleQuery
  /\ uw = [IdleUpdate EXCEPT !.txs = IndexedTxs]
  /\ ws = IdleStream
  /\ bc = IdleBroadcast
  /\ cli = IdleCommand

NextUpdate ==
  \/ \E a \in AddressInputs : UpdateWallet(a)
  \/ \E ok \in BOOLEAN : WriteDone(ok)
  \/ UpdateReturn

SpecUpdate == InitUpdate /\ [][NextUpdate]_vars
(***************************************************************************)
(* One streamWalletTransactions call over a cursor of a few records; the   *)
(* map of handles is empty or holds a handle that is alive or dead.        *)
(***************************************************************************)
TransferInternal == [contractAddress |-> Absent, from |-> "0xA", to |-> "0xB", amount |-> Wide(0, 3)]
TransferOthers == [contractAddress |-> Absent, from |-> "0xC", to |-> "0xD", amount |-> Wide(0, 4)]

\* the records of the cursor: an old one with no effects, one with effects of
\* the token, one with internal transfers
WalletRecords ==
  {StoredTx("0xA", TRUE, <<>>),
   StoredTx("0xA", TRUE, <<TransferTK, TransferT2, TransferByC>>),
   StoredTx("0xA", TRUE, <<TransferOthers, TransferInternal>>)}

TokenArgs == {"", "0xtk", "0xT2", "0xZZ"}

InitStream ==
  /\ \E h \in {NoHandle, 1} :
       /\ rpcs = [n \in Networks |-> IF n = "mainnet" THEN h ELSE NoHandle]
       /\ rpcsChain = (h # NoHandle)
       /\ nextHandle = h + 1
       /\ dead \in SUBSET ({h} \ {NoHandle})
  /\ \E b \in BOOLEAN : constructOk = [n \in Networks |-> n = "testnet" \/ b]
  /\ task = [t \in Tasks |-> IdleTask]
  /\ NoFee
  /\ cache = <<>> /\ refresh = <<>> /\ now = 0
  /\ issued = [probe |-> 0, rpc |-> 0, db |-> 0, cache |-> 0, addresses |-> 0]
  /\ wal = IdleWallet
  /\ xf = IdleTransform
  /\ txc = IdleQuery
  /\ uw = IdleUpdate
  /\ ws = IdleStream
  /\ bc = IdleBroadcast
  /\ cli = IdleCommand

NextStream ==
  \/ \E hasId \in BOOLEAN, tokenAddress \in TokenArgs :
       StreamWalletTransactions(hasId, tokenAddress)
  \/ StreamProbeDone
  \/ \E ok \in BOOLEAN : StreamAddressesDone(ok)
  \/ \E tx \in WalletRecords, receipt \in BOOLEAN : Cursor(tx, receipt)
  \/ \E i \in 1..4, found \in BOOLEAN : StageStep(i, found)

SpecStream == InitStream /\ [][NextStream]_vars


(***************************************************************************)
(* One broadcastTransaction call; the map of handles is empty or holds a   *)
(* handle that is alive or dead.                                           *)
(***************************************************************************)
RawTransactions == {"raw1", "raw2"}

RECURSIVE Lists(_)
Lists(n) ==
  IF n = 0 THEN {<<>>}
  ELSE Lists(n - 1) \cup {Append(l, x) : l \in {m \in Lists(n - 1) : Len(m) = n - 1},
                                          x \in RawTransactions}

\* params.rawTx: one string, or a list of strings
RawTxArgs ==
  {[isString |-> TRUE, string |-> x, list |-> <<>>] : x \in RawTransactions}
  \cup {[isString |-> FALSE, string |-> "", list |-> l] : l \in Lists(MaxTxs)}

InitBroadcast ==
  /\ \E h \in {NoHandle, 1} :
       /\ rpcs = [n \in Networks |-> IF n = "mainnet" THEN h ELSE NoHandle]
       /\ rpcsChain = (h # NoHandle)
       /\ nextHandle = h + 1
       /\ dead \in SUBSET ({h} \ {NoHandle})
  /\ \E b \in BOOLEAN : constructOk = [n \in Networks |-> n = "testnet" \/ b]
  /\ task = [t \in Tasks |-> IdleTask]
  /\ NoFee
  /\ cache = <<>> /\ refresh = <<>> /\ now = 0
  /\ issued = [probe |-> 0, rpc |-> 0, db |-> 0, cache |-> 0, addresses |-> 0]
  /\ wal = IdleWallet
  /\ xf = IdleTransform
  /\ txc = IdleQuery
  /\ uw = IdleUpdate
  /\ ws = IdleStream
  /\ bc = IdleBroadcast
  /\ cli = IdleCommand

NextBroadcast ==
  \/ \E rawTx \in RawTxArgs : BroadcastTransaction(rawTx)
  \/ BroadcastProbeDone
  \/ TransactionHash
  \/ SendError
  \/ LateError
  \/ \E h \in Handles : Kill(h)

SpecBroadcast == InitBroadcast /\ [][NextBroadcast]_vars


(***************************************************************************)
(* getBalanceForAddress calls after an earlier call has filled the cache:  *)
(* the map holds the handle of that call, which is alive or dead by now.   *)
(***************************************************************************)
CachedBalance ==
  [value |-> BalanceOutcome(TRUE, Wide(0, 5)).value, expiry |-> Minute]

InitCached ==
  /\ rpcs = [n \in Networks |-> IF n = "mainnet" THEN 1 ELSE NoHandle]
  /\ rpcsChain = TRUE
  /\ nextHandle = 2
  /\ dead \in SUBSET {1}
  /\ \E b \in BOOLEAN : constructOk = [n \in Networks |-> n = "testnet" \/ b]
  /\ task = [t \in Tasks |-> IdleTask]
  /\ NoFee
  /\ cache = (BalCacheKey("mainnet", "0xab", NoToken) :> CachedBalance)
  /\ refresh = <<>>
  /\ now = 0
  /\ issued = [probe |-> 0, rpc |-> 0, db |-> 0, cache |-> 0, addresses |-> 0]
  /\ wal = IdleWallet
  /\ xf = IdleTransform
  /\ txc = IdleQuery
  /\ uw = IdleUpdate
  /\ ws = IdleStream
  /\ bc = IdleBroadcast
  /\ cli = IdleCommand

NextCached ==
  \/ \E t \in CacheTasks, a \in BalanceArgs : GetBalanceForAddress(t, "mainnet", a[1], a[2])
  \/ \E t \in Tasks : ProbeDone(t)
  \/ \E t \in Tasks : BalanceLookup(t)
  \/ \E t \in Tasks : ProducerProbeDone(t)
  \/ \E t \in Tasks, ok \in BOOLEAN, v \in Balances : RpcDone(t, ok, v)
  \/ \E t \in Tasks : WaitDone(t)

SpecCached == InitCached /\ [][NextCached]_vars


(***************************************************************************)
(* One run of the token-add command on a stored wallet.                    *)
(***************************************************************************)
\* wallet.tokens as stored: none, one, and two of one symbol around another
StoredTokens ==
  {<<>>,
   <<[symbol |-> "USDC", address |-> "0xC1"]>>,
   <<[symbol |-> "USDC", address |-> "0xC1"], [symbol |-> "DAI", address |-> "0xD1"],
     [symbol |-> "USDC", address |-> "0xC2"]>>}

WalletChains == {"ETH", "MATIC", "BTC"}
TokenSymbols == {"USDC", "DAI", "usdc"}

InitCommand ==
  /\ NoConn
  /\ constructOk = [n \in Networks |-> TRUE]
  /\ task = [t \in Tasks |-> IdleTask]
  /\ NoFee
  /\ cache = <<>> /\ refresh = <<>> /\ now = 0
  /\ issued = [probe |-> 0, rpc |-> 0, db |-> 0, cache |-> 0, addresses |-> 0]
  /\ wal = IdleWallet
  /\ xf = IdleTransform
  /\ txc = IdleQuery
  /\ uw = IdleUpdate
  /\ ws = IdleStream
  /\ bc = IdleBroadcast
  /\ \E chain \in WalletChains, tokens \in StoredTokens :
       cli = [IdleCommand EXCEPT !.chain = chain, !.tokens = tokens, !.loaded = tokens]

NextCommand ==
  \/ \E a \in {"0xC1", "0xC9"} : Main(a)
  \/ \E ok \in BOOLEAN : LoadWalletDone(ok)
  \/ \E ok \in BOOLEAN, symbol \in TokenSymbols : GetTokenDone(ok, symbol)
  \/ \E ok, ans \in BOOLEAN : ConfirmDone(ok, ans)
  \/ \E ok \in BOOLEAN : AddTokenDone(ok)

SpecCommand == InitCommand /\ [][NextCommand]_vars

====
